---- MODULE Spec2Model ----
(***************************************************************************)
(* State-machine model of the consistency-and-resilience mechanisms of the *)
(* layered key-value services: the layer-10 circuit breaker and sliding-   *)
(* window rate limiter, and the layer-5 two-tier cache.                    *)
(*                                                                         *)
(* Each mechanism has its own specification over a shared clock `now`:     *)
(*   SpecCB     circuit breaker, concurrent callers                        *)
(*   SpecCBSeq  circuit breaker, one call at a time                        *)
(*   SpecRL     rate limiter, concurrent callers (one store op per step)   *)
(*   SpecRLSeq  rate limiter, one call at a time                           *)
(*   SpecCache  layer-5 tiered cache                                       *)
(*   SpecL5     layer-5 facade, requests one at a time                     *)
(*   SpecRouter layer-4 shard router                                       *)
(*   SpecL4     layer-4 sharded store, overlapping requests                *)
(*   SpecL4Seq  layer-4 sharded store, requests one at a time              *)
(*   SpecL6     layer-6 write queue, API process and worker process        *)
(*   SpecL6Live layer 6 without faults, the worker's loop fair             *)
(*   SpecL7     layer-7 event stream, API process and projector process    *)
(*   SpecL7Live layer 7 without faults in the projector, its loop fair     *)
(*   SpecL9     layer-9 regional stores, requests one at a time, faults    *)
(*   SpecL9Conc layer-9 regional stores, overlapping requests, no faults   *)
(*   SpecCBLive  circuit breaker, failures stop, fair clock and callers    *)
(*   SpecL10    layer-10 service, requests one at a time, faults           *)
(*   SpecL10Conc layer-10 writes by several API processes, no faults       *)
(*   SpecL10RoundTrip layer-10 writes and reads in turn, empty values      *)
(***************************************************************************)
EXTENDS Integers, Sequences, FiniteSets, TLC

\* ---------------------------------------------------------------- bounds
\* The clock runs over 0..MaxTime (whole seconds).
MaxTime == 4
\* Concurrent callers of one circuit breaker.
NumThreads == 2
\* settings.circuit_breaker_threshold / circuit_breaker_timeout, scaled down
\* (both are per-instance configuration: CircuitBreaker.__init__).
failure_threshold == 2
timeout == 2

\* settings.rate_limit_requests / rate_limit_window, scaled down.
rate_limit_requests == 2
rate_limit_window == 2
\* is_rate_limited calls begun in one behaviour.
MaxCalls == 3

\* settings.l1_cache_size / l1_cache_ttl / l2_cache_ttl (layer 5), scaled
\* down.
l1_cache_size == 2
l1_cache_ttl == 1
l2_cache_ttl == 2

\* last_failure_time = None
NoTime == -1
\* a Redis key with no time to live (TTL answers -1)
NoExpiry == -1

Threads == 1..NumThreads
Times == 0..MaxTime
\* record keys and values
Keys == {"alpha", "beta"}
Values == {"v1", "v2"}
\* X-Client-Id values; /health passes "health_check"
Clients == {"default", "health_check"}

\* layer 4: settings.num_shards, the length of shard_urls
num_shards == 3
NumShardUrls == 3
\* the keys written to the shards: the empty key, and a key of another
\* shard
L4Keys == {"", "a"}
\* the keys the router is called with
RouterKeys == {"", "a", "alpha", "beta"}
\* transactions begun
MaxL4Clock == 3
\* string-hash seeds of the interpreter
MaxSeed == 1

\* layer 6: settings.worker_batch_size, scaled down
worker_batch_size == 2
\* writes submitted
MaxL6Writes == 3
L6Keys == {"alpha", "beta"}
L6Writes == [id : 1..MaxL6Writes, key : L6Keys]

\* layer 7: settings.projector_batch_size, scaled down
projector_batch_size == 2
\* commands submitted
MaxL7Commands == 3
\* projector processes started
MaxL7Starts == 2
\* read queries counted per row
MaxL7Reads == 1
L7Keys == {"alpha", "beta"}
EventTypes == {"RecordCreated", "RecordUpdated"}

\* layer 9: all_regions / REGIONS in list order, the region given with a
\* request ("none": not given), settings.replication_enabled
Regions == <<"us-east", "eu-west", "asia-pac">>
RegionSet == {Regions[i] : i \in 1..Len(Regions)}
RegionHeaders == RegionSet \cup {"mars", "none"}
replication_enabled == TRUE
L9Keys == {"beta"}

\* layer 10: SHARDS in list order, the names in circuit_breakers, what a
\* store access can come to (a connection that cannot be had, a statement
\* that fails), the record keys (one key, which get_shard_for_key puts on
\* shard2), and the requests begun in one behaviour
Shards == <<"shard1", "shard2">>
ShardSet == {Shards[i] : i \in 1..Len(Shards)}
Breakers == ShardSet \cup {"cache_l1", "cache_l2"}
StoreOutcomes == {"ok", "conn_fails", "stmt_fails"}
L10Keys == {"alpha"}
\* the values of WriteRequest: value: str, the empty string among them
L10Values == Values \cup {""}
MaxL10Requests == 3
\* the clock of the layer-10 service runs over 0..MaxL10Time
MaxL10Time == 2

VARIABLES
    now,                \* time.time(), in whole seconds
    \* ---- layer 10, CircuitBreaker (one instance)
    cb_state,           \* self.state: "CLOSED" | "OPEN" | "HALF_OPEN"
    failure_count,      \* self.failure_count
    last_failure_time,  \* self.last_failure_time (NoTime for None)
    cb_pc,              \* per caller: "idle" | "infunc" (func is running)
    cb_probe,           \* per caller: its call was let through while the
                        \* breaker was OPEN (cooldown elapsed) or HALF_OPEN
    cb_ret,             \* how the call that returned last ended
    cb_consec,          \* history: wrapped operations that raised since the
                        \* last one that returned normally (or reset())
    \* ---- layer 10, rate_limiter.py
    rate_limiter_client, \* FALSE for None
    zset,               \* per client: the scores of the sorted set
                        \* rate_limit:<client> (member = str(score))
    key_ttl,            \* per client: when that key expires, or NoExpiry
    rl_pc,              \* per caller: "idle" or the store operation it is
                        \* about to issue
    rl_client,          \* per caller: client_id
    current_time,       \* per caller: int(time.time()) taken at entry
    request_count,      \* per caller: the zcard it read
    rl_ret,             \* what the call that returned last returned, and by
                        \* which path
    rl_admitted,        \* history: per client and second, the calls begun
                        \* in that second that returned is_limited = False
    rl_faulted,         \* history: a call found no client or a store
                        \* operation raised
    rl_calls,           \* history: calls begun
    \* ---- layer 5, cache.py
    l1_init,            \* l1_cache is not None
    l1,                 \* the TTLCache: entries [key, value, expires], the
                        \* least recently used first
    redis_client,       \* FALSE for None
    l2,                 \* Redis: per key <<>> or <<[payload, expires]>>,
                        \* for the key record:<key>
    c_ret,              \* the cache operation that returned last: what it
                        \* was, what it returned, whether Redis raised in it
    \* ---- layer 5, main.py
    l5_up,              \* the application is between startup and shutdown
    l5_db,              \* table records: per key <<>> or <<value>>
    f_ret,              \* the response of the request served last
    f_last,             \* history: per key, <<>> or the successful write
                        \* that was the last request for the key: its
                        \* value, whether Redis held the key before it,
                        \* and whether its delete was carried out (or
                        \* there was nothing to delete)
    \* ---- layer 4, main.py / sharding.py / cache.py / database.py
    l4_seed,            \* the interpreter's string-hash seed, new at each
                        \* start of the process
    l4_routes,          \* history: per key, the <<seed, shard id>> of
                        \* every get_shard_id call made for it
    l4_up,              \* the application is between startup and shutdown
    l4_redis,           \* cache.redis_client, FALSE for None
    l4_cache,           \* Redis: per key <<>> or <<row with shard_id>>
    l4_shard,           \* per shard, table records: per key <<>> or
                        \* <<[value, created_at, updated_at]>>
    l4_clock,           \* the timestamps the database servers have handed
                        \* out so far (CURRENT_TIMESTAMP, microseconds)
    l4_pc,              \* per request slot: "idle" or the next step
    l4_req,             \* per request slot: the request's locals
    l4_ret,             \* the response sent last
    l4_stale,           \* history: per key, whether the entry in Redis
                        \* was left there by a write whose invalidation
                        \* was not carried out, or was written by a read
                        \* whose row had been replaced in the store
    \* ---- layer 6, main.py / queue.py / worker.py / database.py
    l6_up,              \* the API process is between startup and shutdown
    l6_qclient,         \* queue.redis_client of the API process
    l6_queue,           \* the Redis list write_queue: the writes pushed
                        \* and not popped, each [id, key]; a write's
                        \* value is identified with its id
    l6_db,              \* table records, committed: per key <<>> or <<id
                        \* of the write whose value the row holds>>
    l6_cache,           \* the Redis cache: per key <<>> or <<id of the
                        \* write whose value is cached>> (0: a row that
                        \* no write of the model produced)
    l6_pc,              \* the API's request in progress: "idle" or the
                        \* step of read_data that comes next
    l6_req,             \* its locals: the key, the row read
    l6_ret,             \* the response sent last
    w_pc,               \* the worker process: "stopped", or where
                        \* main / dequeue_writes / process_writes stands
    w_running,          \* worker.running
    w_qclient,          \* queue.redis_client of the worker process
    w_writes,           \* the batch: writes popped by dequeue_writes
    w_tx,               \* the upserts executed in the open transaction
    l6_next,            \* history: the id the next write gets
    l6_accepted,        \* history: the writes answered queued=true
    l6_applied,         \* history: ids of the writes committed
    l6_failed_at,       \* history: 0, or the id the next write had when
                        \* the running worker last gave up a batch after
                        \* an exception
    \* ---- layer 7, main.py / events.py / projector.py / database.py
    l7_up,              \* the API process is between startup and shutdown
    l7_client,          \* events.redis_client of the API process
    l7_commands,        \* rows of table commands (write database)
    l7_stream,          \* the Redis stream events: entry i is [type, key];
                        \* its id is i, its value is identified with i
    l7_read,            \* table records (read database), committed: per
                        \* key <<>> or <<[value, write_count, read_count]>>
    l7_ret,             \* the response sent last
    p_pc,               \* the projector process: "stopped", or where
                        \* main stands
    p_running,          \* projector.running
    p_client,           \* events.redis_client of the projector process
    last_event_id,      \* projector.last_event_id (0 is "0")
    p_events,           \* the rest of the batch read_events returned
    p_starts,           \* history: projector processes started
    l7_projected,       \* history: ids of the events whose upsert was
                        \* committed
    p_run_last,         \* history: per key, the id of the event whose
                        \* upsert the running projector process
                        \* committed last (0: none yet)
    \* ---- layer 9, main.py / regional_db.py
    l9_up,              \* the API is between startup and shutdown
    l9_db,              \* per region, table records: per key <<>> or
                        \* <<value>>
    l9_cache,           \* per region, the Redis cache: per key <<>> or
                        \* <<value>>
    l9_pc,              \* per request slot: "idle", or "replicate" while
                        \* write_data goes through its targets
    l9_req,             \* per request slot: the locals of write_data
    l9_ret,             \* the response sent last
    l9_wlast,           \* history, with the last write response: whether
                        \* the primary's upsert was committed, the
                        \* replication targets write_record was called
                        \* on, and those of them whose upsert was
                        \* committed
    l9_overlap,         \* history: per key, whether the write begun last
                        \* began while another write of the key was in
                        \* progress
    \* ---- layer 10, main.py / cache.py / database.py and the registries
    \* of circuit_breaker.py and rate_limiter.py
    l10_cb,             \* per API process, circuit_breakers: per name,
                        \* state, failure_count and last_failure_time
    l10_zset,           \* per client, the scores of rate_limit:<client>
    l10_l1,             \* per API process, cache.l1_cache: per key <<>>
                        \* or <<value>>
    l10_l2,             \* the L2 Redis cache: per key <<>> or <<value>>
    l10_shard,          \* per shard, table records: per key <<>> or
                        \* <<value>>
    l10_pc,             \* per API process (a process serves one request
                        \* at a time): "idle", or the step of write that
                        \* comes next ("cache_delete", "cache_set")
    l10_req,            \* per API process: the locals of write
    l10_ret,            \* the response sent last
    l10_requests,       \* history: requests begun
    l10_wlast           \* history: per key, the process that served the
                        \* write committed last (0: none), and whether
                        \* that write began while another write of the
                        \* key was in progress

cbVars == <<cb_state, failure_count, last_failure_time, cb_pc, cb_probe,
            cb_ret, cb_consec>>
rlVars == <<rate_limiter_client, zset, key_ttl, rl_pc, rl_client,
            current_time, request_count, rl_ret, rl_admitted, rl_faulted,
            rl_calls>>
cacheVars == <<l1_init, l1, redis_client, l2, c_ret>>
l5Vars == <<l5_up, l5_db, f_ret, f_last>>
routerVars == <<l4_seed, l4_routes>>
l4Vars == <<l4_up, l4_redis, l4_cache, l4_shard, l4_clock, l4_pc, l4_req,
            l4_ret, l4_stale>>
l6Vars == <<l6_up, l6_qclient, l6_queue, l6_db, l6_cache, l6_pc, l6_req,
            l6_ret, w_pc, w_running, w_qclient, w_writes, w_tx, l6_next,
            l6_accepted, l6_applied, l6_failed_at>>
l7Vars == <<l7_up, l7_client, l7_commands, l7_stream, l7_read, l7_ret, p_pc,
            p_running, p_client, last_event_id, p_events, p_starts,
            l7_projected, p_run_last>>
l9Vars == <<l9_up, l9_db, l9_cache, l9_pc, l9_req, l9_ret, l9_wlast,
            l9_overlap>>
l10Vars == <<l10_cb, l10_zset, l10_l1, l10_l2, l10_shard, l10_pc, l10_req,
             l10_ret, l10_requests, l10_wlast>>
dataVars == <<l5Vars, routerVars, l4Vars, l6Vars, l7Vars, l9Vars, l10Vars>>
\* what the actions of one service leave alone
outsideL5 == <<cbVars, rlVars, routerVars, l4Vars, l6Vars, l7Vars, l9Vars, l10Vars>>
outsideL4 == <<now, cbVars, rlVars, cacheVars, l5Vars, routerVars, l6Vars,
               l7Vars, l9Vars, l10Vars>>
outsideRouter == <<now, cbVars, rlVars, cacheVars, l5Vars, l4Vars, l6Vars,
                   l7Vars, l9Vars, l10Vars>>
outsideL6 == <<now, cbVars, rlVars, cacheVars, l5Vars, routerVars, l4Vars,
               l7Vars, l9Vars, l10Vars>>
outsideL7 == <<now, cbVars, rlVars, cacheVars, l5Vars, routerVars, l4Vars,
               l6Vars, l9Vars, l10Vars>>
outsideL9 == <<now, cbVars, rlVars, cacheVars, l5Vars, routerVars, l4Vars,
               l6Vars, l7Vars, l10Vars>>
outsideL10 == <<now, cbVars, rlVars, cacheVars, l5Vars, routerVars, l4Vars,
                l6Vars, l7Vars, l9Vars>>
vars == <<now, cbVars, rlVars, cacheVars, dataVars>>

\* ------------------------------------------------------------------ clock
\* The clock advances one second; Redis drops the keys whose time to live
\* has run out, and the TTLCache's expired items are gone.
KeyExpired(c, time) == key_ttl[c] # NoExpiry /\ time >= key_ttl[c]

Tick ==
    /\ now < MaxTime
    /\ now' = now + 1
    /\ zset' = [c \in Clients |->
                  IF KeyExpired(c, now + 1) THEN {} ELSE zset[c]]
    /\ key_ttl' = [c \in Clients |->
                  IF KeyExpired(c, now + 1) THEN NoExpiry ELSE key_ttl[c]]
    /\ l1' = SelectSeq(l1, LAMBDA e : ~(now + 1 >= e.expires))
    /\ l2' = [k \in Keys |->
                IF l2[k] # <<>> /\ now + 1 >= l2[k][1].expires
                  THEN <<>> ELSE l2[k]]
    /\ UNCHANGED <<cbVars, dataVars, rate_limiter_client, rl_pc, rl_client,
                   current_time, request_count, rl_ret, rl_admitted,
                   rl_faulted, rl_calls, l1_init, redis_client, c_ret>>

\* ------------------------------------------- layer 10: circuit_breaker.py
CBInit ==
    /\ cb_state = "CLOSED"
    /\ failure_count = 0
    /\ last_failure_time = NoTime
    /\ cb_pc = [t \in Threads |-> "idle"]
    /\ cb_probe = [t \in Threads |-> FALSE]
    /\ cb_ret = [outcome |-> "none", probe |-> FALSE]
    /\ cb_consec = 0

\* a mutant: the cooldown is not waited for
ShouldAttemptReset_NoWait == TRUE

\* CircuitBreaker._should_attempt_reset
ShouldAttemptReset == (now - last_failure_time) >= timeout

\* a mutant: a HALF_OPEN breaker lets one probe through and rejects the rest
Call_OneProbe(t) ==
    /\ cb_pc[t] = "idle"
    /\ IF \/ cb_state = "OPEN" /\ ~ShouldAttemptReset
          \/ cb_state = "HALF_OPEN" /\ \E u \in Threads : cb_pc[u] = "infunc"
         THEN /\ cb_ret' = [outcome |-> "open", probe |-> FALSE]
              /\ UNCHANGED <<cb_state, cb_pc, cb_probe>>
         ELSE /\ cb_state' = IF cb_state = "OPEN" THEN "HALF_OPEN" ELSE cb_state
              /\ cb_pc' = [cb_pc EXCEPT ![t] = "infunc"]
              /\ cb_probe' = [cb_probe EXCEPT ![t] = (cb_state # "CLOSED")]
              /\ UNCHANGED cb_ret
    /\ UNCHANGED <<failure_count, last_failure_time, cb_consec, now, rlVars, cacheVars, dataVars>>

\* CircuitBreaker.call, the locked block: an OPEN breaker whose cooldown has
\* not elapsed raises without invoking func; otherwise (after moving an OPEN
\* breaker to HALF_OPEN) func is invoked.
Call(t) ==
    /\ cb_pc[t] = "idle"
    /\ IF cb_state = "OPEN" /\ ~ShouldAttemptReset
         THEN /\ cb_ret' = [outcome |-> "open", probe |-> FALSE]
              /\ UNCHANGED <<cb_state, cb_pc, cb_probe>>
         ELSE /\ cb_state' = IF cb_state = "OPEN" THEN "HALF_OPEN" ELSE cb_state
              /\ cb_pc' = [cb_pc EXCEPT ![t] = "infunc"]
              /\ cb_probe' = [cb_probe EXCEPT ![t] = (cb_state # "CLOSED")]
              /\ UNCHANGED cb_ret
    /\ UNCHANGED <<failure_count, last_failure_time, cb_consec, now, rlVars, cacheVars, dataVars>>

\* a mutant: a success does not close a HALF_OPEN breaker
OnSuccess_NoClose(t) ==
    /\ cb_pc[t] = "infunc"
    /\ failure_count' = 0
    /\ UNCHANGED cb_state
    /\ cb_pc' = [cb_pc EXCEPT ![t] = "idle"]
    /\ cb_probe' = [cb_probe EXCEPT ![t] = FALSE]
    /\ cb_ret' = [outcome |-> "ok", probe |-> cb_probe[t]]
    /\ cb_consec' = 0
    /\ UNCHANGED <<last_failure_time, now, rlVars, cacheVars, dataVars>>

\* func returns normally: CircuitBreaker._on_success, then call returns
OnSuccess(t) ==
    /\ cb_pc[t] = "infunc"
    /\ failure_count' = 0
    /\ cb_state' = IF cb_state = "HALF_OPEN" THEN "CLOSED" ELSE cb_state
    /\ cb_pc' = [cb_pc EXCEPT ![t] = "idle"]
    /\ cb_probe' = [cb_probe EXCEPT ![t] = FALSE]
    /\ cb_ret' = [outcome |-> "ok", probe |-> cb_probe[t]]
    /\ cb_consec' = 0
    /\ UNCHANGED <<last_failure_time, now, rlVars, cacheVars, dataVars>>

\* func raises: CircuitBreaker._on_failure, then call re-raises
OnFailure(t) ==
    /\ cb_pc[t] = "infunc"
    /\ failure_count' = failure_count + 1
    /\ last_failure_time' = now
    /\ cb_state' = IF failure_count + 1 >= failure_threshold
                     THEN "OPEN" ELSE cb_state
    /\ cb_pc' = [cb_pc EXCEPT ![t] = "idle"]
    /\ cb_probe' = [cb_probe EXCEPT ![t] = FALSE]
    /\ cb_ret' = [outcome |-> "failed", probe |-> cb_probe[t]]
    /\ cb_consec' = cb_consec + 1
    /\ UNCHANGED <<now, rlVars, cacheVars, dataVars>>

\* CircuitBreaker.reset
Reset ==
    /\ failure_count' = 0
    /\ last_failure_time' = NoTime
    /\ cb_state' = "CLOSED"
    /\ cb_consec' = 0
    /\ UNCHANGED <<cb_pc, cb_probe, cb_ret, now, rlVars, cacheVars, dataVars>>

AllIdle == \A t \in Threads : cb_pc[t] = "idle"

\* ---------------------------------------------- layer 10: rate_limiter.py
RLInit ==
    /\ rate_limiter_client = FALSE
    /\ zset = [c \in Clients |-> {}]
    /\ key_ttl = [c \in Clients |-> NoExpiry]
    /\ rl_pc = [t \in Threads |-> "idle"]
    /\ rl_client = [t \in Threads |-> "default"]
    /\ current_time = [t \in Threads |-> 0]
    /\ request_count = [t \in Threads |-> 0]
    /\ rl_ret = [is_limited |-> FALSE, remaining |-> 0, reset_in |-> 0,
                 path |-> "none"]
    /\ rl_admitted = [c \in Clients |-> [s \in Times |-> 0]]
    /\ rl_faulted = FALSE
    /\ rl_calls = 0

Max(a, b) == IF a >= b THEN a ELSE b
SetMin(S) == CHOOSE x \in S : \A y \in S : x <= y

\* init_rate_limiter: the client is assigned before ping() is tried
InitRateLimiter ==
    /\ ~rate_limiter_client
    /\ rate_limiter_client' = TRUE
    /\ UNCHANGED <<now, cbVars, cacheVars, dataVars, zset, key_ttl, rl_pc, rl_client,
                   current_time, request_count, rl_ret, rl_admitted,
                   rl_faulted, rl_calls>>

\* a call returns (is_limited, remaining, reset_in); history is updated
RLReturn(t, c, began, limited, remaining, reset, path) ==
    /\ rl_pc' = [rl_pc EXCEPT ![t] = "idle"]
    /\ rl_ret' = [is_limited |-> limited, remaining |-> remaining,
                  reset_in |-> reset, path |-> path]
    /\ rl_admitted' =
         IF limited THEN rl_admitted
         ELSE [rl_admitted EXCEPT ![c][began] = @ + 1]
    /\ rl_faulted' = (rl_faulted \/ path # "normal")
    \* the call's locals are gone
    /\ rl_client' = [rl_client EXCEPT ![t] = "default"]
    /\ current_time' = [current_time EXCEPT ![t] = 0]
    /\ request_count' = [request_count EXCEPT ![t] = 0]

\* the fail-open answer of is_rate_limited
FailOpen(t, c, began, path) ==
    RLReturn(t, c, began, FALSE, rate_limit_requests, 0, path)

\* a mutant: the limiter fails closed
OnStoreError_FailClosed(t) ==
    RLReturn(t, rl_client[t], current_time[t], TRUE, 0, rate_limit_window,
             "error")

\* is_rate_limited, the except branch
OnStoreError(t) == FailOpen(t, rl_client[t], current_time[t], "error")

\* is_rate_limited, up to the try: without a client the answer is fail-open
RLBegin(t, c) ==
    /\ rl_pc[t] = "idle"
    /\ rl_calls < MaxCalls
    /\ rl_calls' = rl_calls + 1
    /\ IF ~rate_limiter_client
         THEN FailOpen(t, c, now, "uninit")
         ELSE /\ rl_pc' = [rl_pc EXCEPT ![t] = "zrem"]
              /\ rl_client' = [rl_client EXCEPT ![t] = c]
              /\ current_time' = [current_time EXCEPT ![t] = now]
              /\ UNCHANGED <<rl_ret, rl_admitted, rl_faulted, request_count>>
    /\ UNCHANGED <<now, cbVars, cacheVars, dataVars, rate_limiter_client, zset, key_ttl>>

\* any of the store operations raises
RLRaise(t) ==
    /\ rl_pc[t] # "idle"
    /\ OnStoreError(t)
    /\ UNCHANGED <<now, cbVars, cacheVars, dataVars, rate_limiter_client, zset, key_ttl,
                   rl_calls>>

\* zremrangebyscore(key, 0, window_start); a set left empty is no key
RLZrem(t) ==
    LET c == rl_client[t]
        window_start == current_time[t] - rate_limit_window
        kept == {s \in zset[c] : ~(0 <= s /\ s <= window_start)}
    IN  /\ rl_pc[t] = "zrem"
        /\ zset' = [zset EXCEPT ![c] = kept]
        /\ key_ttl' = [key_ttl EXCEPT ![c] = IF kept = {} THEN NoExpiry ELSE @]
        /\ rl_pc' = [rl_pc EXCEPT ![t] = "zcard"]
        /\ UNCHANGED <<now, cbVars, cacheVars, dataVars, rate_limiter_client, rl_client,
                       current_time, request_count, rl_ret, rl_admitted,
                       rl_faulted, rl_calls>>

\* request_count = zcard(key), and the comparison with the limit
RLZcard(t) ==
    LET n == Cardinality(zset[rl_client[t]])
    IN  /\ rl_pc[t] = "zcard"
        /\ request_count' = [request_count EXCEPT ![t] = n]
        /\ rl_pc' = [rl_pc EXCEPT ![t] =
                       IF n >= rate_limit_requests THEN "zrange" ELSE "zadd"]
        /\ UNCHANGED <<now, cbVars, cacheVars, dataVars, rate_limiter_client, zset, key_ttl,
                       rl_client, current_time, rl_ret, rl_admitted,
                       rl_faulted, rl_calls>>

\* oldest = zrange(key, 0, 0, withscores=True): reject, or (nothing left in
\* the set) fall through to the recording of the request
RLZrange(t) ==
    LET c == rl_client[t]
    IN  /\ rl_pc[t] = "zrange"
        /\ IF zset[c] # {}
             THEN RLReturn(t, c, current_time[t], TRUE, 0,
                     Max(0, SetMin(zset[c]) + rate_limit_window
                              - current_time[t]), "normal")
             ELSE /\ rl_pc' = [rl_pc EXCEPT ![t] = "zadd"]
                  /\ UNCHANGED <<rl_ret, rl_admitted, rl_faulted, rl_client,
                                 current_time, request_count>>
        /\ UNCHANGED <<now, cbVars, cacheVars, dataVars, rate_limiter_client, zset, key_ttl,
                       rl_calls>>

\* zadd(key, {str(current_time): current_time}): a member that is already
\* in the set is not added again
RLZadd(t) ==
    LET c == rl_client[t]
    IN  /\ rl_pc[t] = "zadd"
        /\ zset' = [zset EXCEPT ![c] = @ \cup {current_time[t]}]
        /\ rl_pc' = [rl_pc EXCEPT ![t] = "expire"]
        /\ UNCHANGED <<now, cbVars, cacheVars, dataVars, rate_limiter_client, key_ttl, rl_client,
                       current_time, request_count, rl_ret, rl_admitted,
                       rl_faulted, rl_calls>>

\* expire(key, window), then the request is admitted
RLExpire(t) ==
    LET c == rl_client[t]
    IN  /\ rl_pc[t] = "expire"
        /\ key_ttl' = [key_ttl EXCEPT ![c] =
                         IF zset[c] = {} THEN @ ELSE now + rate_limit_window]
        /\ RLReturn(t, c, current_time[t], FALSE,
                    rate_limit_requests - request_count[t] - 1,
                    rate_limit_window, "normal")
        /\ UNCHANGED <<now, cbVars, cacheVars, dataVars, rate_limiter_client, zset, rl_calls>>

RLAllIdle == \A t \in Threads : rl_pc[t] = "idle"

RLSteps ==
    \/ \E t \in Threads : RLRaise(t)
    \/ \E t \in Threads : RLZrem(t)
    \/ \E t \in Threads : RLZcard(t)
    \/ \E t \in Threads : RLZrange(t)
    \/ \E t \in Threads : RLZadd(t)
    \/ \E t \in Threads : RLExpire(t)


\* ----------------------------------------------- layer 5: app/cache.py
CacheInit ==
    /\ l1_init = FALSE
    /\ l1 = <<>>
    /\ redis_client = FALSE
    /\ l2 = [k \in Keys |-> <<>>]
    /\ c_ret = [op |-> "none", key |-> "alpha", data |-> <<>>,
                level |-> "None", l2_error |-> FALSE, at |-> 0]

\* A cached record: the row's value, and whether its timestamps are still
\* datetime objects ("row") or the strings json gives back ("json").
Record(v) == [value |-> v, form |-> "row"]
\* json.dumps(value, default=str): the timestamps are written as strings
JsonDumps(rec) == [value |-> rec.value]
\* json.loads
JsonLoads(payload) == [value |-> payload.value, form |-> "json"]

\* `if not l1_cache`: a TTLCache is a mapping, false when it is None and
\* also when it holds no item
L1Truthy == l1_init /\ Len(l1) > 0

L1Index(k) == {i \in 1..Len(l1) : l1[i].key = k}
L1Without(k) == SelectSeq(l1, LAMBDA e : e.key # k)

\* get_from_l1: <<>> for None, <<value>> for a hit
GetFromL1(k) ==
    IF ~L1Truthy \/ L1Index(k) = {} THEN <<>>
    ELSE <<l1[CHOOSE i \in L1Index(k) : TRUE].value>>

\* l1_cache[key] marks the item as the most recently used
L1AfterGet(k) ==
    IF ~L1Truthy \/ L1Index(k) = {} THEN l1
    ELSE Append(L1Without(k), l1[CHOOSE i \in L1Index(k) : TRUE])

\* TTLCache.__setitem__: the least recently used items make room
RECURSIVE L1Evict(_)
L1Evict(c) == IF Len(c) + 1 > l1_cache_size /\ Len(c) > 0
                THEN L1Evict(Tail(c)) ELSE c

L1Store(k, v) ==
    LET e == [key |-> k, value |-> v, expires |-> now + l1_cache_ttl]
    IN  IF L1Index(k) # {} THEN Append(L1Without(k), e)
        ELSE IF l1_cache_size < 1 THEN l1
        ELSE Append(L1Evict(l1), e)

\* a set_in_l1 that stores without looking at what the cache holds
SetInL1_Unbounded(k, v) ==
    IF ~l1_init THEN l1
    ELSE Append(l1, [key |-> k, value |-> v,
                     expires |-> now + l1_cache_ttl])

\* set_in_l1: the l1 that results
SetInL1(k, v) == IF ~L1Truthy THEN l1 ELSE L1Store(k, v)

\* invalidate_l1: the l1 that results
InvalidateL1(k) == IF ~L1Truthy THEN l1 ELSE L1Without(k)

\* get_from_l2: <<>> for None (no client, the get raised, or no such key)
GetFromL2(k, raises) ==
    IF ~redis_client \/ raises \/ l2[k] = <<>> THEN <<>>
    ELSE <<JsonLoads(l2[k][1].payload)>>

\* set_in_l2: the store that results (setex with l2_cache_ttl)
SetInL2(k, v, raises) ==
    IF ~redis_client \/ raises THEN l2
    ELSE [l2 EXCEPT ![k] = <<[payload |-> JsonDumps(v),
                              expires |-> now + l2_cache_ttl]>>]

\* a mutant: the key deleted is not the key that was set
InvalidateL2_WrongKey(k, raises) == l2

\* invalidate_l2: the store that results
InvalidateL2(k, raises) ==
    IF ~redis_client \/ raises THEN l2 ELSE [l2 EXCEPT ![k] = <<>>]

\* get_from_cache: what it returns
Lookup(k, raises) ==
    LET d1 == GetFromL1(k)
        d2 == GetFromL2(k, raises)
    IN  IF d1 # <<>> THEN [data |-> d1, level |-> "L1"]
        ELSE IF d2 # <<>> THEN [data |-> d2, level |-> "L2"]
        ELSE [data |-> <<>>, level |-> "None"]

CacheRet(op, k, data, level, raised) ==
    [op |-> op, key |-> k, data |-> data, level |-> level,
     l2_error |-> raised, at |-> now]

\* whether a Redis command of this call raises
Raises == IF redis_client THEN BOOLEAN ELSE {FALSE}

\* init_caches: a new TTLCache; the Redis client, or None when the
\* connection fails
InitCaches ==
    /\ \E connected \in BOOLEAN :
          /\ redis_client' = connected
          /\ c_ret' = CacheRet("init", "alpha", <<>>, "None", ~connected)
    /\ l1_init' = TRUE
    /\ l1' = <<>>
    /\ UNCHANGED <<now, cbVars, rlVars, dataVars, l2>>

\* close_caches: `if l1_cache` skips a cache that holds nothing
CloseCaches ==
    /\ l1_init' = IF L1Truthy THEN FALSE ELSE l1_init
    /\ l1' = <<>>
    /\ redis_client' = FALSE
    /\ c_ret' = CacheRet("close", "alpha", <<>>, "None", FALSE)
    /\ UNCHANGED <<now, cbVars, rlVars, dataVars, l2>>

\* get_from_cache: L1, then L2 with promotion into L1
GetFromCache(k) ==
    \E raises \in Raises :
        LET r == Lookup(k, raises)
        IN  /\ l1' = CASE r.level = "L1" -> L1AfterGet(k)
                       [] r.level = "L2" -> SetInL1(k, r.data[1])
                       [] OTHER -> l1
            /\ c_ret' = CacheRet("get", k, r.data, r.level,
                                 raises /\ r.level # "L1")
            /\ UNCHANGED <<now, cbVars, rlVars, dataVars, l1_init, redis_client, l2>>

\* set_in_cache
SetInCache(k, v) ==
    \E raises \in Raises :
        /\ l1' = SetInL1(k, Record(v))
        /\ l2' = SetInL2(k, Record(v), raises)
        /\ c_ret' = CacheRet("set", k, <<>>, "None", raises)
        /\ UNCHANGED <<now, cbVars, rlVars, dataVars, l1_init, redis_client>>

\* set_in_l2 called on its own
SetInL2Only(k, v) ==
    \E raises \in Raises :
        /\ l2' = SetInL2(k, Record(v), raises)
        /\ c_ret' = CacheRet("set_l2", k, <<>>, "None", raises)
        /\ UNCHANGED <<now, cbVars, rlVars, dataVars, l1_init, l1, redis_client>>

\* set_in_l1 called on its own
SetInL1Only(k, v) ==
    /\ l1' = SetInL1(k, Record(v))
    /\ c_ret' = CacheRet("set_l1", k, <<>>, "None", FALSE)
    /\ UNCHANGED <<now, cbVars, rlVars, dataVars, l1_init, redis_client, l2>>

\* invalidate_cache; c_ret.data is what Redis held for the key before
InvalidateCache(k) ==
    \E raises \in Raises :
        /\ l1' = InvalidateL1(k)
        /\ l2' = InvalidateL2(k, raises)
        /\ c_ret' = CacheRet("invalidate", k, l2[k], "None", raises)
        /\ UNCHANGED <<now, cbVars, rlVars, dataVars, l1_init, redis_client>>

\* clear_all_caches
ClearAllCaches ==
    \E raises \in Raises :
        /\ l1' = <<>>
        /\ l2' = IF ~redis_client \/ raises
                   THEN l2 ELSE [k \in Keys |-> <<>>]
        /\ c_ret' = CacheRet("clear", "alpha", <<>>, "None", raises)
        /\ UNCHANGED <<now, cbVars, rlVars, dataVars, l1_init, redis_client>>

\* ------------------------------------------- layer 5: main.py (facade)
\* Requests are served one at a time, each handler from entry to response.
L5Init ==
    /\ l5_up = FALSE
    /\ l5_db = [k \in Keys |-> <<>>]
    /\ f_ret = [op |-> "none", key |-> "alpha", status |-> 0,
                success |-> FALSE, value |-> "none", cache_level |-> "None",
                prior |-> <<>>]
    /\ f_last = [k \in Keys |-> <<>>]

\* a response; prior is history: for a read, the write it follows
Response(op, k, status, success, value, level) ==
    [op |-> op, key |-> k, status |-> status, success |-> success,
     value |-> value, cache_level |-> level,
     prior |-> IF op = "read" THEN f_last[k] ELSE <<>>]

\* whether a statement on the database raises
DbFails == BOOLEAN

\* lifespan, startup: init_caches (init_pool and init_db keep the table)
L5Startup ==
    /\ ~l5_up
    /\ l5_up' = TRUE
    /\ \E connected \in BOOLEAN :
          /\ redis_client' = connected
          /\ c_ret' = CacheRet("init", "alpha", <<>>, "None", ~connected)
    /\ l1_init' = TRUE
    /\ l1' = <<>>
    /\ UNCHANGED <<now, outsideL5, l2, l5_db, f_ret, f_last>>

\* lifespan, shutdown: close_caches
L5Shutdown ==
    /\ l5_up
    /\ l5_up' = FALSE
    /\ l1_init' = IF L1Truthy THEN FALSE ELSE l1_init
    /\ l1' = <<>>
    /\ redis_client' = FALSE
    /\ c_ret' = CacheRet("close", "alpha", <<>>, "None", FALSE)
    /\ UNCHANGED <<now, outsideL5, l2, l5_db, f_ret, f_last>>

\* a mutant: the write leaves the caches alone
L5InvalidateOnWrite_Skip(k, raises) == l2

\* the Redis that the invalidate_cache of write_data leaves
L5InvalidateOnWrite(k, raises) == InvalidateL2(k, raises)

\* POST /write: the upsert is committed, then invalidate_cache
L5WriteData(k, v) ==
    /\ l5_up
    /\ \E dbfails \in DbFails, raises \in Raises :
          IF dbfails
            THEN /\ f_ret' = Response("write", k, 500, FALSE, "none", "None")
                 /\ UNCHANGED <<l5_db, l1, l2, c_ret, f_last>>
            ELSE /\ l5_db' = [l5_db EXCEPT ![k] = <<v>>]
                 /\ l1' = InvalidateL1(k)
                 /\ l2' = L5InvalidateOnWrite(k, raises)
                 /\ c_ret' = CacheRet("invalidate", k, l2[k], "None", raises)
                 /\ f_ret' = Response("write", k, 200, TRUE, "none", "None")
                 /\ f_last' = [f_last EXCEPT ![k] =
                                 <<[value |-> v,
                                   had_l2 |-> l2[k] # <<>>,
                                   l2_clean |-> \/ redis_client /\ ~raises
                                                \/ l2[k] = <<>>]>>]
    /\ UNCHANGED <<now, outsideL5, l1_init, redis_client, l5_up>>

\* GET /read/{key}: get_from_cache, on a miss the table, then set_in_cache
L5ReadData(k) ==
    /\ l5_up
    /\ \E dbfails \in DbFails, raises \in Raises, raises2 \in Raises :
          LET r == Lookup(k, raises)
          IN  IF r.data # <<>>
                THEN /\ l1' = IF r.level = "L1" THEN L1AfterGet(k)
                                                ELSE SetInL1(k, r.data[1])
                     /\ c_ret' = CacheRet("get", k, r.data, r.level, FALSE)
                     /\ f_ret' = Response("read", k, 200, TRUE,
                                          r.data[1].value, r.level)
                     /\ UNCHANGED l2
              ELSE IF dbfails
                THEN /\ c_ret' = CacheRet("get", k, <<>>, "None", raises)
                     /\ f_ret' = Response("read", k, 500, FALSE, "none",
                                          "None")
                     /\ UNCHANGED <<l1, l2>>
              ELSE IF l5_db[k] # <<>>
                THEN /\ l1' = SetInL1(k, Record(l5_db[k][1]))
                     /\ l2' = SetInL2(k, Record(l5_db[k][1]), raises2)
                     /\ c_ret' = CacheRet("set", k, <<>>, "None", raises2)
                     /\ f_ret' = Response("read", k, 200, TRUE, l5_db[k][1],
                                          "L3")
                ELSE /\ c_ret' = CacheRet("get", k, <<>>, "None", raises)
                     /\ f_ret' = Response("read", k, 200, FALSE, "none", "L3")
                     /\ UNCHANGED <<l1, l2>>
    /\ f_last' = [f_last EXCEPT ![k] = <<>>]
    /\ UNCHANGED <<now, outsideL5, l1_init, redis_client, l5_up, l5_db>>

\* POST /clear-cache: clear_all_caches
L5ClearCache ==
    /\ l5_up
    /\ \E raises \in Raises :
          /\ l1' = <<>>
          /\ l2' = IF ~redis_client \/ raises
                     THEN l2 ELSE [k \in Keys |-> <<>>]
          /\ c_ret' = CacheRet("clear", "alpha", <<>>, "None", raises)
    /\ f_ret' = Response("clear", "alpha", 200, TRUE, "none", "None")
    /\ UNCHANGED <<now, outsideL5, l1_init, redis_client, l5_up, l5_db,
                   f_last>>

\* ------------------------------------------------ layer 4: sharding.py
\* hashlib.md5(key.encode()).hexdigest() of the keys of the model, digit by
\* digit (the last one is "beta")
Md5HexDigest(k) ==
    \* d41d8cd98f00b204e9800998ecf8427e
    CASE k = "" ->
        <<13, 4, 1, 13, 8, 12, 13, 9, 8, 15, 0, 0, 11, 2, 0, 4,
          14, 9, 8, 0, 0, 9, 9, 8, 14, 12, 15, 8, 4, 2, 7, 14>>
    \* 0cc175b9c0f1b6a831c399e269772661
      [] k = "a" ->
        <<0, 12, 12, 1, 7, 5, 11, 9, 12, 0, 15, 1, 11, 6, 10, 8,
          3, 1, 12, 3, 9, 9, 14, 2, 6, 9, 7, 7, 2, 6, 6, 1>>
    \* 2c1743a391305fbf367df8e4f069f9f9
      [] k = "alpha" ->
        <<2, 12, 1, 7, 4, 3, 10, 3, 9, 1, 3, 0, 5, 15, 11, 15,
          3, 6, 7, 13, 15, 8, 14, 4, 15, 0, 6, 9, 15, 9, 15, 9>>
    \* 987bcab01b929eb2c07877b224215c92
      [] OTHER ->
        <<9, 8, 7, 11, 12, 10, 11, 0, 1, 11, 9, 2, 9, 14, 11, 2,
          12, 0, 7, 8, 7, 7, 11, 2, 2, 4, 2, 1, 5, 12, 9, 2>>

\* int(digits, 16) % n, most significant digit first
RECURSIVE HexMod(_, _, _)
HexMod(digits, n, acc) ==
    IF digits = <<>> THEN acc
    ELSE HexMod(Tail(digits), n, (acc * 16 + Head(digits)) % n)

\* a mutant: the interpreter's salted hash() in place of MD5
GetShardId_Salted(k) ==
    (HexMod(Md5HexDigest(k), num_shards, 0) + l4_seed) % num_shards

\* get_shard_id on each key of the model, worked out once
ShardIds ==
    [k \in RouterKeys \cup L4Keys |-> HexMod(Md5HexDigest(k), num_shards, 0)]

\* get_shard_id
GetShardId(k) == ShardIds[k]

RouterInit ==
    /\ l4_seed = 0
    /\ l4_routes = [k \in RouterKeys |-> {}]

\* a new process: the interpreter draws a new string-hash seed
RouterRestart ==
    /\ \E sd \in 0..MaxSeed : sd # l4_seed /\ l4_seed' = sd
    /\ UNCHANGED <<outsideRouter, l4_routes>>

\* a call of get_shard_id(k); its result is recorded
RouterCall(k) ==
    /\ l4_routes' = [l4_routes EXCEPT ![k] = @ \cup {<<l4_seed, GetShardId(k)>>}]
    /\ UNCHANGED <<outsideRouter, l4_seed>>

\* ------------------------------------ layer 4: database.py and cache.py
\* the shards that have a connection pool (shard_urls)
ShardPools == 0..(NumShardUrls - 1)

\* a mutant: the upsert replaces the row
Upsert_Replace(row, v, ts) ==
    <<[value |-> v, created_at |-> ts, updated_at |-> ts]>>

\* INSERT ... ON CONFLICT (key) DO UPDATE SET value, updated_at, in a
\* transaction whose CURRENT_TIMESTAMP is ts; created_at defaults to it
Upsert(row, v, ts) ==
    IF row = <<>>
      THEN <<[value |-> v, created_at |-> ts, updated_at |-> ts]>>
      ELSE <<[value |-> v, created_at |-> row[1].created_at,
              updated_at |-> ts]>>

\* result_dict with shard_id, through json.dumps(default=str) and
\* json.loads: the timestamps come back as strings
L4Cached(row, shard) ==
    [value |-> row.value, created_at |-> row.created_at,
     updated_at |-> row.updated_at, shard_id |-> shard, form |-> "json"]

\* get_from_cache: <<>> for None
L4GetFromCache(k, raises) ==
    IF ~l4_redis \/ raises THEN <<>> ELSE l4_cache[k]

\* set_in_cache: the Redis that results
L4SetInCache(k, row, shard, raises) ==
    IF ~l4_redis \/ raises THEN l4_cache
    ELSE [l4_cache EXCEPT ![k] = <<L4Cached(row, shard)>>]

\* a mutant: the key is left in Redis
L4InvalidateCache_Skip(k, raises) == l4_cache

\* invalidate_cache: the Redis that results
L4InvalidateCache(k, raises) ==
    IF ~l4_redis \/ raises THEN l4_cache ELSE [l4_cache EXCEPT ![k] = <<>>]

L4Raises == IF l4_redis THEN BOOLEAN ELSE {FALSE}

\* --------------------------------------------------- layer 4: main.py
L4IdleReq == [op |-> "none", key |-> "", value |-> "v1", shard_id |-> 0,
              ts |-> 0, row |-> <<>>]

L4Init ==
    /\ l4_up = FALSE
    /\ l4_redis = FALSE
    /\ l4_cache = [k \in L4Keys |-> <<>>]
    /\ l4_shard = [sh \in ShardPools |-> [k \in L4Keys |-> <<>>]]
    /\ l4_clock = 0
    /\ l4_pc = [t \in Threads |-> "idle"]
    /\ l4_req = [t \in Threads |-> L4IdleReq]
    /\ l4_ret = [op |-> "none", key |-> "", status |-> 0, success |-> FALSE,
                 value |-> "none", from_cache |-> FALSE, shard_id |-> -1,
                 consulted |-> {}]
    /\ l4_stale = [k \in L4Keys |-> FALSE]

\* a response; consulted is history: the shards the request queried
L4Response(op, k, status, success, value, cached, shard, consulted) ==
    [op |-> op, key |-> k, status |-> status, success |-> success,
     value |-> value, from_cache |-> cached, shard_id |-> shard,
     consulted |-> consulted]

L4AllIdle == \A t \in Threads : l4_pc[t] = "idle"

\* lifespan, startup: a new process; init_redis connects or not
L4Startup ==
    /\ ~l4_up
    /\ l4_up' = TRUE
    /\ l4_redis' \in BOOLEAN
    /\ UNCHANGED <<l4_stale, outsideL4, l4_cache, l4_shard, l4_clock, l4_pc,
                   l4_req, l4_ret>>

\* lifespan, shutdown: close_redis
L4Shutdown ==
    /\ l4_up /\ L4AllIdle
    /\ l4_up' = FALSE
    /\ l4_redis' = FALSE
    /\ UNCHANGED <<l4_stale, outsideL4, l4_cache, l4_shard, l4_clock, l4_pc,
                   l4_req, l4_ret>>

\* Redis drops a key whose time to live (settings.cache_ttl) has run out
L4CacheExpire(k) ==
    /\ l4_cache[k] # <<>>
    /\ l4_cache' = [l4_cache EXCEPT ![k] = <<>>]
    /\ l4_stale' = [l4_stale EXCEPT ![k] = FALSE]
    /\ UNCHANGED <<outsideL4, l4_up, l4_redis, l4_shard, l4_clock,
                   l4_pc, l4_req, l4_ret>>

\* a mutant: the write goes to the neighbour of the key's shard
L4WriteShard_Neighbour(k) == (GetShardId(k) + 1) % num_shards

\* write_data: shard_id = get_shard_id(request.key)
L4WriteShard(k) == GetShardId(k)

\* write_data, up to the start of the transaction: the shard is chosen, a
\* connection taken from its pool, and the server fixes CURRENT_TIMESTAMP
L4WriteBegin(t, k, v) ==
    /\ l4_up /\ l4_pc[t] = "idle"
    /\ l4_clock < MaxL4Clock
    /\ IF L4WriteShard(k) \in ShardPools
         THEN /\ l4_clock' = l4_clock + 1
              /\ l4_pc' = [l4_pc EXCEPT ![t] = "upsert"]
              /\ l4_req' = [l4_req EXCEPT ![t] =
                    [op |-> "write", key |-> k, value |-> v,
                     shard_id |-> L4WriteShard(k), ts |-> l4_clock + 1,
                     row |-> <<>>]]
              /\ UNCHANGED l4_ret
         ELSE /\ l4_ret' = L4Response("write", k, 500, FALSE, "none", FALSE,
                                      -1, {})
              /\ UNCHANGED <<l4_clock, l4_pc, l4_req>>
    /\ UNCHANGED <<l4_stale, outsideL4, l4_up, l4_redis, l4_cache, l4_shard>>

\* write_data: the upsert and its commit, or the statement raises
L4WriteUpsert(t) ==
    /\ l4_pc[t] = "upsert"
    /\ LET r == l4_req[t]
       IN  \E dbfails \in DbFails :
             IF dbfails
               THEN /\ l4_ret' = L4Response("write", r.key, 500, FALSE,
                                            "none", FALSE, -1, {})
                    /\ l4_pc' = [l4_pc EXCEPT ![t] = "idle"]
                    /\ l4_req' = [l4_req EXCEPT ![t] = L4IdleReq]
                    /\ UNCHANGED l4_shard
               ELSE /\ l4_shard' = [l4_shard EXCEPT ![r.shard_id][r.key] =
                                       Upsert(@, r.value, r.ts)]
                    /\ l4_pc' = [l4_pc EXCEPT ![t] = "invalidate"]
                    /\ UNCHANGED <<l4_ret, l4_req>>
    /\ UNCHANGED <<l4_stale, outsideL4, l4_up, l4_redis, l4_cache, l4_clock>>

\* write_data: invalidate_cache, then the response
L4WriteInvalidate(t) ==
    /\ l4_pc[t] = "invalidate"
    /\ LET r == l4_req[t]
       IN  \E raises \in L4Raises :
             /\ l4_cache' = L4InvalidateCache(r.key, raises)
             /\ l4_ret' = L4Response("write", r.key, 200, TRUE, "none",
                                     FALSE, r.shard_id, {r.shard_id})
             /\ l4_stale' = [l4_stale EXCEPT ![r.key] =
                                (~l4_redis \/ raises) /\ l4_cache[r.key] # <<>>]
    /\ l4_pc' = [l4_pc EXCEPT ![t] = "idle"]
    /\ l4_req' = [l4_req EXCEPT ![t] = L4IdleReq]
    /\ UNCHANGED <<outsideL4, l4_up, l4_redis, l4_shard, l4_clock>>

\* read_data: get_from_cache; on a miss the shard is chosen
L4ReadBegin(t, k) ==
    /\ l4_up /\ l4_pc[t] = "idle"
    /\ \E raises \in L4Raises :
          LET c == L4GetFromCache(k, raises)
          IN  IF c # <<>>
                THEN /\ l4_ret' = L4Response("read", k, 200, TRUE,
                                     c[1].value, TRUE, c[1].shard_id, {})
                     /\ UNCHANGED <<l4_pc, l4_req>>
                ELSE /\ l4_pc' = [l4_pc EXCEPT ![t] = "select"]
                     /\ l4_req' = [l4_req EXCEPT ![t] =
                           [op |-> "read", key |-> k, value |-> "v1",
                            shard_id |-> GetShardId(k), ts |-> 0,
                            row |-> <<>>]]
                     /\ UNCHANGED l4_ret
    /\ UNCHANGED <<l4_stale, outsideL4, l4_up, l4_redis, l4_cache, l4_shard,
                   l4_clock>>

\* read_data: the SELECT on the chosen shard
L4ReadSelect(t) ==
    /\ l4_pc[t] = "select"
    /\ LET r == l4_req[t]
           row == IF r.shard_id \in ShardPools
                    THEN l4_shard[r.shard_id][r.key] ELSE <<>>
       IN  \E dbfails \in DbFails :
             IF dbfails \/ r.shard_id \notin ShardPools
               THEN /\ l4_ret' = L4Response("read", r.key, 500, FALSE,
                                            "none", FALSE, -1, {})
                    /\ l4_pc' = [l4_pc EXCEPT ![t] = "idle"]
                    /\ l4_req' = [l4_req EXCEPT ![t] = L4IdleReq]
             ELSE IF row = <<>>
               THEN /\ l4_ret' = L4Response("read", r.key, 200, FALSE,
                                     "none", FALSE, r.shard_id, {r.shard_id})
                    /\ l4_pc' = [l4_pc EXCEPT ![t] = "idle"]
                    /\ l4_req' = [l4_req EXCEPT ![t] = L4IdleReq]
               ELSE /\ l4_pc' = [l4_pc EXCEPT ![t] = "populate"]
                    /\ l4_req' = [l4_req EXCEPT ![t].row = row]
                    /\ UNCHANGED l4_ret
    /\ UNCHANGED <<l4_stale, outsideL4, l4_up, l4_redis, l4_cache, l4_shard,
                   l4_clock>>

\* read_data: set_in_cache of the row read, then the response
L4ReadPopulate(t) ==
    /\ l4_pc[t] = "populate"
    /\ LET r == l4_req[t]
       IN  \E raises \in L4Raises :
             /\ l4_cache' = L4SetInCache(r.key, r.row[1], r.shard_id, raises)
             /\ l4_stale' = [l4_stale EXCEPT ![r.key] =
                                IF ~l4_redis \/ raises THEN l4_stale[r.key]
                                ELSE r.row # l4_shard[r.shard_id][r.key]]
             /\ l4_ret' = L4Response("read", r.key, 200, TRUE,
                                     r.row[1].value, FALSE, r.shard_id,
                                     {r.shard_id})
    /\ l4_pc' = [l4_pc EXCEPT ![t] = "idle"]
    /\ l4_req' = [l4_req EXCEPT ![t] = L4IdleReq]
    /\ UNCHANGED <<outsideL4, l4_up, l4_redis, l4_shard, l4_clock>>

L4Steps ==
    \/ \E t \in Threads : L4WriteUpsert(t)
    \/ \E t \in Threads : L4WriteInvalidate(t)
    \/ \E t \in Threads : L4ReadSelect(t)
    \/ \E t \in Threads : L4ReadPopulate(t)

\* ------------------------------------- layer 6: main.py and queue.py
L6Init ==
    /\ l6_up = FALSE
    /\ l6_qclient = FALSE
    /\ l6_queue = <<>>
    /\ l6_db = [k \in L6Keys |-> <<>>]
    /\ l6_cache = [k \in L6Keys |-> <<>>]
    /\ l6_pc = "idle"
    /\ l6_req = [key |-> "alpha", row |-> <<>>]
    /\ l6_ret = [op |-> "none", key |-> "alpha", status |-> 0,
                 success |-> FALSE, queued |-> FALSE, value |-> 0,
                 from_cache |-> FALSE]
    /\ w_pc = "stopped"
    /\ w_running = TRUE
    /\ w_qclient = FALSE
    /\ w_writes = <<>>
    /\ w_tx = <<>>
    /\ l6_next = 1
    /\ l6_accepted = {}
    /\ l6_applied = {}
    /\ l6_failed_at = 0

L6Response(op, k, status, success, queued, value, cached) ==
    [op |-> op, key |-> k, status |-> status, success |-> success,
     queued |-> queued, value |-> value, from_cache |-> cached]

\* app.cache of layer 6: get_from_cache, <<>> for None
L6GetFromCache(k, raises) == IF raises THEN <<>> ELSE l6_cache[k]
\* set_in_cache: the cache that results
L6SetInCache(k, row, raises) ==
    IF raises THEN l6_cache ELSE [l6_cache EXCEPT ![k] = row]
\* invalidate_cache: the cache that results; best effort
L6InvalidateCache(k, raises) ==
    IF raises THEN l6_cache ELSE [l6_cache EXCEPT ![k] = <<>>]

\* the cache drops a key whose time to live has run out
L6CacheExpire(k) ==
    /\ l6_cache[k] # <<>>
    /\ l6_cache' = [l6_cache EXCEPT ![k] = <<>>]
    /\ UNCHANGED <<outsideL6, l6_up, l6_qclient, l6_queue, l6_db, l6_pc,
                   l6_req, l6_ret, w_pc, w_running, w_qclient, w_writes,
                   w_tx, l6_next, l6_accepted, l6_applied, l6_failed_at>>

\* lifespan, startup: init_queue connects or not
L6Startup(connected) ==
    /\ ~l6_up
    /\ l6_up' = TRUE
    /\ l6_qclient' = connected
    /\ UNCHANGED <<outsideL6, l6_queue, l6_db, l6_cache, l6_pc, l6_req,
                   l6_ret, w_pc, w_running, w_qclient, w_writes, w_tx,
                   l6_next, l6_accepted, l6_applied, l6_failed_at>>

\* lifespan, shutdown: close_queue
L6Shutdown ==
    /\ l6_up /\ l6_pc = "idle"
    /\ l6_up' = FALSE
    /\ l6_qclient' = FALSE
    /\ UNCHANGED <<outsideL6, l6_queue, l6_db, l6_cache, l6_pc, l6_req,
                   l6_ret, w_pc, w_running, w_qclient, w_writes, w_tx,
                   l6_next, l6_accepted, l6_applied, l6_failed_at>>

\* a mutant: the write is not pushed but answered as queued
EnqueueWrite_Drop(q, item) == q

\* a mutant: the write is pushed to the front of the list (LPUSH)
EnqueueWrite_Front(q, item) == <<item>> \o q

\* enqueue_write: rpush to the end of the list
EnqueueWrite(q, item) == Append(q, item)

\* POST /write: enqueue_write, then invalidate_cache and queued=true, or 500
L6WriteData(k) ==
    /\ l6_up /\ l6_pc = "idle"
    /\ l6_next <= MaxL6Writes
    /\ \E raises \in BOOLEAN, craises \in BOOLEAN :
          IF ~l6_qclient \/ raises
            THEN /\ l6_ret' = L6Response("write", k, 500, FALSE, FALSE, 0,
                                         FALSE)
                 /\ UNCHANGED <<l6_queue, l6_cache, l6_next, l6_accepted>>
            ELSE /\ l6_queue' = EnqueueWrite(l6_queue,
                                             [id |-> l6_next, key |-> k])
                 /\ l6_cache' = L6InvalidateCache(k, craises)
                 /\ l6_ret' = L6Response("write", k, 200, TRUE, TRUE,
                                         l6_next, FALSE)
                 /\ l6_next' = l6_next + 1
                 /\ l6_accepted' = l6_accepted \cup
                                       {[id |-> l6_next, key |-> k]}
    /\ UNCHANGED <<outsideL6, l6_up, l6_qclient, l6_db, l6_pc, l6_req, w_pc,
                   w_running, w_qclient, w_writes, w_tx, l6_applied,
                   l6_failed_at>>

\* GET /read/{key}: get_from_cache; a hit is the response
L6ReadBegin(k) ==
    /\ l6_up /\ l6_pc = "idle"
    /\ \E craises \in BOOLEAN :
          LET c == L6GetFromCache(k, craises)
          IN  IF c # <<>>
                THEN /\ l6_ret' = L6Response("read", k, 200, TRUE, FALSE,
                                             c[1], TRUE)
                     /\ UNCHANGED <<l6_pc, l6_req>>
                ELSE /\ l6_pc' = "select"
                     /\ l6_req' = [key |-> k, row |-> <<>>]
                     /\ UNCHANGED l6_ret
    /\ UNCHANGED <<outsideL6, l6_up, l6_qclient, l6_queue, l6_db, l6_cache,
                   w_pc, w_running, w_qclient, w_writes, w_tx, l6_next,
                   l6_accepted, l6_applied, l6_failed_at>>

\* read_data: the SELECT
L6ReadSelect ==
    /\ l6_pc = "select"
    /\ \E dbfails \in DbFails :
          IF dbfails
            THEN /\ l6_ret' = L6Response("read", l6_req.key, 500, FALSE,
                                         FALSE, 0, FALSE)
                 /\ l6_pc' = "idle"
                 /\ UNCHANGED l6_req
          ELSE IF l6_db[l6_req.key] = <<>>
            THEN /\ l6_ret' = L6Response("read", l6_req.key, 200, FALSE,
                                         FALSE, 0, FALSE)
                 /\ l6_pc' = "idle"
                 /\ UNCHANGED l6_req
            ELSE /\ l6_pc' = "populate"
                 /\ l6_req' = [l6_req EXCEPT !.row = l6_db[l6_req.key]]
                 /\ UNCHANGED l6_ret
    /\ UNCHANGED <<outsideL6, l6_up, l6_qclient, l6_queue, l6_db, l6_cache,
                   w_pc, w_running, w_qclient, w_writes, w_tx, l6_next,
                   l6_accepted, l6_applied, l6_failed_at>>

\* read_data: set_in_cache of the row, then the response
L6ReadPopulate ==
    /\ l6_pc = "populate"
    /\ \E craises \in BOOLEAN :
          l6_cache' = L6SetInCache(l6_req.key, l6_req.row, craises)
    /\ l6_ret' = L6Response("read", l6_req.key, 200, TRUE, FALSE,
                            l6_req.row[1], FALSE)
    /\ l6_pc' = "idle"
    /\ l6_req' = [l6_req EXCEPT !.row = <<>>]
    /\ UNCHANGED <<outsideL6, l6_up, l6_qclient, l6_queue, l6_db, w_pc,
                   w_running, w_qclient, w_writes, w_tx, l6_next,
                   l6_accepted, l6_applied, l6_failed_at>>

\* ------------------------------------- layer 6: worker.py and queue.py
\* the ids of the writes of a batch
BatchIds(ws) == {ws[i].id : i \in 1..Len(ws)}

\* the table after the upserts of a committed transaction, in their order
RECURSIVE TxApply(_, _)
TxApply(db, tx) ==
    IF tx = <<>> THEN db
    ELSE TxApply([db EXCEPT ![Head(tx).key] = <<Head(tx).id>>], Tail(tx))

\* a mutant: the exception leaves process_writes and ends main's loop
WorkerAfterError_Propagates == "stopped"

\* where the worker stands after dequeue_writes or process_writes has
\* caught an exception: back in the loop of main
WorkerAfterError == "poll"

\* python -m app.worker: main up to the loop; init_queue connects or not
WorkerStart(connected) ==
    /\ w_pc = "stopped"
    /\ w_pc' = "poll"
    /\ w_running' = TRUE
    /\ w_qclient' = connected
    /\ l6_failed_at' = 0
    /\ UNCHANGED <<outsideL6, l6_up, l6_qclient, l6_queue, l6_db, l6_cache,
                   l6_pc, l6_req, l6_ret, w_writes, w_tx, l6_next,
                   l6_accepted, l6_applied>>

\* signal_handler
WorkerSignal ==
    /\ w_pc # "stopped" /\ w_running
    /\ w_running' = FALSE
    /\ UNCHANGED <<outsideL6, l6_up, l6_qclient, l6_queue, l6_db, l6_cache,
                   l6_pc, l6_req, l6_ret, w_pc, w_qclient, w_writes, w_tx,
                   l6_next, l6_accepted, l6_applied, l6_failed_at>>

\* main: `while running` is false, the finally block closes the queue
WorkerExit ==
    /\ w_pc = "poll" /\ ~w_running
    /\ w_pc' = "stopped"
    /\ w_qclient' = FALSE
    /\ UNCHANGED <<outsideL6, l6_up, l6_qclient, l6_queue, l6_db, l6_cache,
                   l6_pc, l6_req, l6_ret, w_running, w_writes, w_tx, l6_next,
                   l6_accepted, l6_applied, l6_failed_at>>

\* main: the loop calls dequeue_writes, which returns [] without a client
WorkerPoll ==
    /\ w_pc = "poll" /\ w_running
    /\ w_pc' = IF w_qclient THEN "lpop" ELSE "sleep"
    /\ w_writes' = <<>>
    /\ UNCHANGED <<outsideL6, l6_up, l6_qclient, l6_queue, l6_db, l6_cache,
                   l6_pc, l6_req, l6_ret, w_running, w_qclient, w_tx,
                   l6_next, l6_accepted, l6_applied, l6_failed_at>>

\* dequeue_writes: one turn of its loop. Below batch_size it issues an
\* LPOP; an exception makes it return [], whatever it has popped
WorkerLpop(raises) ==
    /\ w_pc = "lpop"
    /\ IF Len(w_writes) < worker_batch_size /\ raises
         THEN /\ w_writes' = <<>>
              /\ w_pc' = IF WorkerAfterError = "poll" THEN "sleep"
                                                     ELSE WorkerAfterError
              /\ l6_failed_at' = IF w_writes # <<>> THEN l6_next
                                                    ELSE l6_failed_at
              /\ UNCHANGED l6_queue
       ELSE IF Len(w_writes) < worker_batch_size /\ l6_queue # <<>>
         THEN /\ w_writes' = Append(w_writes, Head(l6_queue))
              /\ l6_queue' = Tail(l6_queue)
              /\ UNCHANGED <<w_pc, l6_failed_at>>
         ELSE /\ w_pc' = IF w_writes # <<>> THEN "apply" ELSE "sleep"
              /\ UNCHANGED <<w_writes, l6_queue, l6_failed_at>>
    /\ UNCHANGED <<outsideL6, l6_up, l6_qclient, l6_db, l6_cache, l6_pc,
                   l6_req, l6_ret, w_running, w_qclient, w_tx, l6_next,
                   l6_accepted, l6_applied>>

\* main: time.sleep(worker_poll_interval)
WorkerSleep ==
    /\ w_pc = "sleep"
    /\ w_pc' = "poll"
    /\ UNCHANGED <<outsideL6, l6_up, l6_qclient, l6_queue, l6_db, l6_cache,
                   l6_pc, l6_req, l6_ret, w_running, w_qclient, w_writes,
                   w_tx, l6_next, l6_accepted, l6_applied, l6_failed_at>>

\* process_writes: the next write of the batch is upserted in the open
\* transaction and its key invalidated in the cache; an exception (also
\* on taking the connection) rolls the transaction back
WorkerApply(fails) ==
    /\ w_pc = "apply"
    /\ IF fails
         THEN /\ w_tx' = <<>>
              /\ w_writes' = <<>>
              /\ w_pc' = WorkerAfterError
              /\ l6_failed_at' = l6_next
              /\ UNCHANGED l6_cache
         ELSE LET w == w_writes[Len(w_tx) + 1]
              IN  /\ w_tx' = Append(w_tx, w)
                  /\ \E craises \in BOOLEAN :
                        l6_cache' = L6InvalidateCache(w.key, craises)
                  /\ w_pc' = IF Len(w_tx) + 1 = Len(w_writes)
                               THEN "commit" ELSE "apply"
                  /\ UNCHANGED <<w_writes, l6_failed_at>>
    /\ UNCHANGED <<outsideL6, l6_up, l6_qclient, l6_queue, l6_db, l6_pc,
                   l6_req, l6_ret, w_running, w_qclient, l6_next,
                   l6_accepted, l6_applied>>

\* process_writes: conn.commit() after the loop, or it raises
WorkerCommit(fails) ==
    /\ w_pc = "commit"
    /\ IF fails
         THEN /\ w_pc' = WorkerAfterError
              /\ l6_failed_at' = l6_next
              /\ UNCHANGED <<l6_db, l6_applied>>
         ELSE /\ l6_db' = TxApply(l6_db, w_tx)
              /\ l6_applied' = l6_applied \cup BatchIds(w_tx)
              /\ w_pc' = "poll"
              /\ UNCHANGED l6_failed_at
    /\ w_tx' = <<>>
    /\ w_writes' = <<>>
    /\ UNCHANGED <<outsideL6, l6_up, l6_qclient, l6_queue, l6_cache, l6_pc,
                   l6_req, l6_ret, w_running, w_qclient, l6_next,
                   l6_accepted>>

\* the worker process is killed: its batch and its transaction are gone
WorkerCrash ==
    /\ w_pc # "stopped"
    /\ w_pc' = "stopped"
    /\ w_qclient' = FALSE
    /\ w_writes' = <<>>
    /\ w_tx' = <<>>
    /\ UNCHANGED <<outsideL6, l6_up, l6_qclient, l6_queue, l6_db, l6_cache,
                   l6_pc, l6_req, l6_ret, w_running, l6_next, l6_accepted,
                   l6_applied, l6_failed_at>>

\* the steps of a worker that meets no error
WorkerRun ==
    \/ WorkerStart(TRUE)
    \/ WorkerPoll
    \/ WorkerLpop(FALSE)
    \/ WorkerSleep
    \/ WorkerApply(FALSE)
    \/ WorkerCommit(FALSE)

\* ------------------------------------- layer 7: main.py and events.py
L7Init ==
    /\ l7_up = FALSE
    /\ l7_client = FALSE
    /\ l7_commands = 0
    /\ l7_stream = <<>>
    /\ l7_read = [k \in L7Keys |-> <<>>]
    /\ l7_ret = <<>>
    /\ p_pc = "stopped"
    /\ p_running = TRUE
    /\ p_client = FALSE
    /\ last_event_id = 0
    /\ p_events = <<>>
    /\ p_starts = 0
    /\ l7_projected = {}
    /\ p_run_last = [k \in L7Keys |-> 0]

\* WriteResponse / ReadResponse / HTTPException: the fields the request
\* does not fix; event_id 0 is None, value 0 is no value
L7Response(op, status, success, event_id, value) ==
    <<[op |-> op, status |-> status, success |-> success,
       event_id |-> event_id, value |-> value]>>

\* lifespan, startup: init_event_store leaves redis_client None when the
\* ping fails
L7Startup(connected) ==
    /\ ~l7_up
    /\ l7_up' = TRUE
    /\ l7_client' = connected
    /\ UNCHANGED <<l7_commands, l7_stream, l7_read, l7_ret, p_pc, p_running,
                   p_client, last_event_id, p_events, p_starts,
                   l7_projected, p_run_last>>
    /\ UNCHANGED outsideL7

\* lifespan, shutdown: close_event_store
L7Shutdown ==
    /\ l7_up
    /\ l7_up' = FALSE
    /\ l7_client' = FALSE
    /\ UNCHANGED <<l7_commands, l7_stream, l7_read, l7_ret, p_pc, p_running,
                   p_client, last_event_id, p_events, p_starts,
                   l7_projected, p_run_last>>
    /\ UNCHANGED outsideL7

\* publish_event: the stream after the call; no client or an exception
\* in xadd leaves it as it was
PublishEvent(stream, client, raises, type, k) ==
    IF ~client \/ raises
    THEN stream
    ELSE Append(stream, [type |-> type, key |-> k])

\* publish_event's return value: the id xadd gave the entry, or None (0)
PublishedId(stream, client, raises) ==
    IF ~client \/ raises THEN 0 ELSE Len(stream) + 1

\* write_command (type "RecordCreated") and update_command (type
\* "RecordUpdated"): commit the row of table commands, then publish
L7WriteCommand(type, k) ==
    /\ l7_up
    /\ l7_commands < MaxL7Commands
    /\ \E fails \in DbFails, raises \in BOOLEAN :
          IF fails
          THEN /\ l7_ret' = L7Response("write", 500, FALSE, 0, 0)
               /\ UNCHANGED <<l7_commands, l7_stream>>
          ELSE /\ l7_commands' = l7_commands + 1
               /\ l7_stream' = PublishEvent(l7_stream, l7_client, raises,
                                            type, k)
               /\ l7_ret' = L7Response("write", 200, TRUE,
                               PublishedId(l7_stream, l7_client, raises), 0)
    /\ UNCHANGED <<l7_up, l7_client, l7_read, p_pc, p_running, p_client,
                   last_event_id, p_events, p_starts, l7_projected,
                   p_run_last>>
    /\ UNCHANGED outsideL7

\* read_query: count the read, select the row, commit
L7ReadQuery(k) ==
    /\ l7_up
    /\ l7_read[k] # <<>> => l7_read[k][1].read_count < MaxL7Reads
    /\ \E fails \in DbFails :
          IF fails
          THEN /\ l7_ret' = L7Response("read", 500, FALSE, 0, 0)
               /\ UNCHANGED l7_read
          ELSE IF l7_read[k] # <<>>
          THEN LET row == [l7_read[k][1] EXCEPT
                              !.read_count = l7_read[k][1].read_count + 1]
               IN  /\ l7_read' = [l7_read EXCEPT ![k] = <<row>>]
                   /\ l7_ret' = L7Response("read", 200, TRUE, 0, row.value)
          ELSE /\ l7_ret' = L7Response("read", 200, FALSE, 0, 0)
               /\ UNCHANGED l7_read
    /\ UNCHANGED <<l7_up, l7_client, l7_commands, l7_stream, p_pc, p_running,
                   p_client, last_event_id, p_events, p_starts,
                   l7_projected, p_run_last>>
    /\ UNCHANGED outsideL7

\* ----------------------------------- layer 7: projector.py and events.py
\* XREAD answering with the newest entry first
ReadEvents_NewestFirst(stream, client, raises, last_id, count) ==
    IF ~client \/ raises \/ Len(stream) <= last_id
    THEN <<>>
    ELSE LET n == IF Len(stream) - last_id < count
                  THEN Len(stream) - last_id ELSE count
         IN  [i \in 1..n |-> last_id + n + 1 - i]

\* read_events: the ids of the entries after last_id, at most count of
\* them; no client or an exception in xread gives the empty list
ReadEvents(stream, client, raises, last_id, count) ==
    IF ~client \/ raises \/ Len(stream) <= last_id
    THEN <<>>
    ELSE LET n == IF Len(stream) - last_id < count
                  THEN Len(stream) - last_id ELSE count
         IN  [i \in 1..n |-> last_id + i]

\* ON CONFLICT (key) keeping the row's value
ProjectUpsert_KeepValue(row, value) ==
    IF row = <<>>
    THEN <<[value |-> value, write_count |-> 1, read_count |-> 0]>>
    ELSE <<[row[1] EXCEPT !.write_count = row[1].write_count + 1]>>

\* the upsert of project_event on the row of one key
ProjectUpsert(row, value) ==
    IF row = <<>>
    THEN <<[value |-> value, write_count |-> 1, read_count |-> 0]>>
    ELSE <<[row[1] EXCEPT !.value = value,
                          !.write_count = row[1].write_count + 1]>>

\* python -m app.projector: a new process, running = True,
\* last_event_id = "0"
ProjectorStart(connected) ==
    /\ p_pc = "stopped"
    /\ p_starts < MaxL7Starts
    /\ p_pc' = "poll"
    /\ p_running' = TRUE
    /\ p_client' = connected
    /\ last_event_id' = 0
    /\ p_events' = <<>>
    /\ p_starts' = p_starts + 1
    /\ p_run_last' = [k \in L7Keys |-> 0]
    /\ UNCHANGED <<l7_up, l7_client, l7_commands, l7_stream, l7_read, l7_ret,
                   l7_projected>>
    /\ UNCHANGED outsideL7

\* signal_handler
ProjectorSignal ==
    /\ p_pc # "stopped"
    /\ p_running
    /\ p_running' = FALSE
    /\ UNCHANGED <<l7_up, l7_client, l7_commands, l7_stream, l7_read, l7_ret,
                   p_pc, p_client, last_event_id, p_events, p_starts,
                   l7_projected, p_run_last>>
    /\ UNCHANGED outsideL7

\* main: `while running` false, the finally block; the process ends and
\* its globals are as a new process will find them
ProjectorExit ==
    /\ p_pc = "poll"
    /\ ~p_running
    /\ p_pc' = "stopped"
    /\ p_client' = FALSE
    /\ p_running' = TRUE
    /\ last_event_id' = 0
    /\ p_run_last' = [k \in L7Keys |-> 0]
    /\ UNCHANGED <<l7_up, l7_client, l7_commands, l7_stream, l7_read, l7_ret,
                   p_events, p_starts, l7_projected>>
    /\ UNCHANGED outsideL7

\* main: events = read_events(last_id=last_event_id, count=batch size)
ProjectorPoll(raises) ==
    /\ p_pc = "poll"
    /\ p_running
    /\ LET events == ReadEvents(l7_stream, p_client, raises, last_event_id,
                                projector_batch_size)
       IN  /\ p_events' = events
           /\ p_pc' = IF events # <<>> THEN "project" ELSE "sleep"
    /\ UNCHANGED <<l7_up, l7_client, l7_commands, l7_stream, l7_read, l7_ret,
                   p_running, p_client, last_event_id, p_starts,
                   l7_projected, p_run_last>>
    /\ UNCHANGED outsideL7

\* main: time.sleep(settings.projector_poll_interval)
ProjectorSleep ==
    /\ p_pc = "sleep"
    /\ p_pc' = "poll"
    /\ UNCHANGED <<l7_up, l7_client, l7_commands, l7_stream, l7_read, l7_ret,
                   p_running, p_client, last_event_id, p_events, p_starts,
                   l7_projected, p_run_last>>
    /\ UNCHANGED outsideL7

\* project_event on the batch's next event: the upsert and its commit, or
\* an exception, which is caught (the function returns False)
ProjectEvent(fails) ==
    /\ p_pc = "project"
    /\ LET event_id == Head(p_events)
           event == l7_stream[event_id]
       IN  IF fails \/ event.type \notin EventTypes
           THEN UNCHANGED <<l7_read, l7_projected, p_run_last>>
           ELSE /\ l7_read' = [l7_read EXCEPT ![event.key] =
                                 ProjectUpsert(l7_read[event.key], event_id)]
                /\ l7_projected' = l7_projected \cup {event_id}
                /\ p_run_last' = [p_run_last EXCEPT ![event.key] = event_id]
    /\ p_pc' = "advance"
    /\ UNCHANGED <<l7_up, l7_client, l7_commands, l7_stream, l7_ret,
                   p_running, p_client, last_event_id, p_events, p_starts>>
    /\ UNCHANGED outsideL7

\* main: last_event_id = event_id, whatever project_event returned; then
\* the batch's next event, or the loop's next round
ProjectorAdvance ==
    /\ p_pc = "advance"
    /\ last_event_id' = Head(p_events)
    /\ p_events' = Tail(p_events)
    /\ p_pc' = IF Tail(p_events) # <<>> THEN "project" ELSE "poll"
    /\ UNCHANGED <<l7_up, l7_client, l7_commands, l7_stream, l7_read, l7_ret,
                   p_running, p_client, p_starts, l7_projected,
                   p_run_last>>
    /\ UNCHANGED outsideL7

\* the projector process is killed
ProjectorCrash ==
    /\ p_pc # "stopped"
    /\ p_pc' = "stopped"
    /\ p_client' = FALSE
    /\ p_events' = <<>>
    /\ p_running' = TRUE
    /\ last_event_id' = 0
    /\ p_run_last' = [k \in L7Keys |-> 0]
    /\ UNCHANGED <<l7_up, l7_client, l7_commands, l7_stream, l7_read, l7_ret,
                   p_starts, l7_projected>>
    /\ UNCHANGED outsideL7

\* the projector with the event store and the read database answering
ProjectorRun ==
    \/ ProjectorStart(TRUE)
    \/ ProjectorExit
    \/ ProjectorPoll(FALSE)
    \/ ProjectorSleep
    \/ ProjectEvent(FALSE)
    \/ ProjectorAdvance

\* a shutdown signal to a projector that is started again afterwards
ProjectorRestartSignal ==
    /\ p_starts < MaxL7Starts
    /\ ProjectorSignal

\* --------------------------------- layer 9: geo_router.py, regional_db.py
\* REGIONS[region]["name"]
RegionName(r) ==
    CASE r = "us-east" -> "US-EAST"
      [] r = "eu-west" -> "EU-WEST"
      [] OTHER -> "ASIA-PAC"

\* get_region_from_header: a known region, or the default
GetRegionFromHeader(region_header) ==
    IF region_header # "none" /\ region_header \in RegionSet
    THEN region_header
    ELSE "us-east"

GetOptimalReadRegion(k, user_region) == user_region

GetWriteRegion(user_region) == user_region

\* the first region that is not the primary, alone
GetReplicationRegions_FirstOnly(primary_region) ==
    SubSeq(SelectSeq(Regions, LAMBDA r : r # primary_region), 1, 1)

\* get_replication_regions: all regions except the primary, in list order
GetReplicationRegions(primary_region) ==
    SelectSeq(Regions, LAMBDA r : r # primary_region)

\* write_record: the upsert commits unless the statement or the commit
\* raises ("db_fails"); cache.delete follows the commit and may raise
\* ("cache_fails"), leaving the committed row and the cache entry
WriteOutcomes == {"ok", "db_fails", "cache_fails"}

WriteRecordDb(db, r, k, v, outcome) ==
    IF outcome = "db_fails" THEN db ELSE [db EXCEPT ![r][k] = <<v>>]

WriteRecordCache(cache, r, k, outcome) ==
    IF outcome = "ok" THEN [cache EXCEPT ![r][k] = <<>>] ELSE cache

\* read_record, when nothing raises: the value returned (<<>> is None),
\* its source, and the region's cache afterwards
ReadRecordValue(db, cache, r, k) ==
    IF cache[r][k] # <<>> THEN cache[r][k] ELSE db[r][k]

ReadRecordSource(cache, r, k) ==
    IF cache[r][k] # <<>> THEN "cache" ELSE "database"

ReadRecordCache(db, cache, r, k) ==
    IF cache[r][k] = <<>> /\ db[r][k] # <<>>
    THEN [cache EXCEPT ![r][k] = db[r][k]]
    ELSE cache

\* ---------------------------------------------------- layer 9: main.py
L9IdleReq == [key |-> "", value |-> "", primary |-> "", targets |-> <<>>,
              replicated |-> <<>>, committed |-> {}]

L9Init ==
    /\ l9_up = FALSE
    /\ l9_db = [r \in RegionSet |-> [k \in L9Keys |-> <<>>]]
    /\ l9_cache = [r \in RegionSet |-> [k \in L9Keys |-> <<>>]]
    /\ l9_pc = [t \in Threads |-> "idle"]
    /\ l9_req = [t \in Threads |-> L9IdleReq]
    /\ l9_ret = [op |-> "none"]
    /\ l9_wlast = [primary_committed |-> FALSE, targets |-> {},
                   committed |-> {}]
    /\ l9_overlap = [k \in L9Keys |-> FALSE]

\* WriteResponse, or HTTPException(500)
L9WriteResponse(status, success, primary, replicated) ==
    [op |-> "write", status |-> status, success |-> success,
     primary_region |-> primary, replicated_to |-> replicated]

\* ReadResponse, or HTTPException(500); `fallback` is the " (fallback)"
\* suffix of the region
L9ReadResponse(status, success, value, source, region, fallback) ==
    [op |-> "read", status |-> status, success |-> success,
     value |-> value, source |-> source, region |-> region,
     fallback |-> fallback]

L9AllIdle == \A t \in Threads : l9_pc[t] = "idle"

\* lifespan, startup: init_all_regions
L9Startup ==
    /\ ~l9_up
    /\ l9_up' = TRUE
    /\ UNCHANGED <<l9_db, l9_cache, l9_pc, l9_req, l9_ret, l9_wlast,
                   l9_overlap>>
    /\ UNCHANGED outsideL9

\* lifespan, shutdown: close_all_regions, once the requests are answered
L9Shutdown ==
    /\ l9_up
    /\ L9AllIdle
    /\ l9_up' = FALSE
    /\ UNCHANGED <<l9_db, l9_cache, l9_pc, l9_req, l9_ret, l9_wlast,
                   l9_overlap>>
    /\ UNCHANGED outsideL9

\* setex(cache_key, settings.cache_ttl, value): the entry's time is up
L9CacheExpire(r, k) ==
    /\ l9_cache[r][k] # <<>>
    /\ l9_cache' = [l9_cache EXCEPT ![r][k] = <<>>]
    /\ UNCHANGED <<l9_up, l9_db, l9_pc, l9_req, l9_ret, l9_wlast,
                   l9_overlap>>
    /\ UNCHANGED outsideL9

\* write_data up to the primary write: region_header is
\* `x_region or request.region` ("none": neither given)
L9WriteBegin(t, region_header, k, v, outcome) ==
    /\ l9_up
    /\ l9_pc[t] = "idle"
    /\ LET primary_region == GetWriteRegion(
                                 GetRegionFromHeader(region_header))
           targets == IF replication_enabled
                      THEN GetReplicationRegions(primary_region)
                      ELSE <<>>
           committed == IF outcome = "db_fails" THEN {}
                        ELSE {primary_region}
       IN  /\ l9_db' = WriteRecordDb(l9_db, primary_region, k, v, outcome)
           /\ l9_cache' = WriteRecordCache(l9_cache, primary_region, k,
                                           outcome)
           /\ l9_overlap' = [l9_overlap EXCEPT ![k] =
                 \E u \in Threads : l9_pc[u] # "idle" /\ l9_req[u].key = k]
           /\ IF outcome # "ok"
              THEN /\ l9_ret' = L9WriteResponse(500, FALSE, "", <<>>)
                   /\ l9_wlast' = [primary_committed |->
                                      primary_region \in committed,
                                   targets |-> {}, committed |-> {}]
                   /\ UNCHANGED <<l9_pc, l9_req>>
              ELSE IF targets = <<>>
              THEN /\ l9_ret' = L9WriteResponse(200, TRUE,
                                   RegionName(primary_region), <<>>)
                   /\ l9_wlast' = [primary_committed |-> TRUE,
                                   targets |-> {}, committed |-> {}]
                   /\ UNCHANGED <<l9_pc, l9_req>>
              ELSE /\ l9_pc' = [l9_pc EXCEPT ![t] = "replicate"]
                   /\ l9_req' = [l9_req EXCEPT ![t] =
                         [key |-> k, value |-> v,
                          primary |-> primary_region, targets |-> targets,
                          replicated |-> <<>>, committed |-> {}]]
                   /\ UNCHANGED <<l9_ret, l9_wlast>>
    /\ UNCHANGED l9_up
    /\ UNCHANGED outsideL9

\* write_data: write_record on the next replication target, its exception
\* caught; after the last target, the response
L9WriteReplicate(t, outcome) ==
    /\ l9_pc[t] = "replicate"
    /\ LET req == l9_req[t]
           target_region == Head(req.targets)
           replicated == IF outcome = "ok"
                         THEN Append(req.replicated,
                                     RegionName(target_region))
                         ELSE req.replicated
           committed == IF outcome = "db_fails" THEN req.committed
                        ELSE req.committed \cup {target_region}
       IN  /\ l9_db' = WriteRecordDb(l9_db, target_region, req.key,
                                     req.value, outcome)
           /\ l9_cache' = WriteRecordCache(l9_cache, target_region, req.key,
                                           outcome)
           /\ IF Tail(req.targets) # <<>>
              THEN /\ l9_req' = [l9_req EXCEPT ![t] =
                         [req EXCEPT !.targets = Tail(req.targets),
                                     !.replicated = replicated,
                                     !.committed = committed]]
                   /\ UNCHANGED <<l9_pc, l9_ret, l9_wlast>>
              ELSE /\ l9_pc' = [l9_pc EXCEPT ![t] = "idle"]
                   /\ l9_req' = [l9_req EXCEPT ![t] = L9IdleReq]
                   /\ l9_ret' = L9WriteResponse(200, TRUE,
                                   RegionName(req.primary), replicated)
                   /\ l9_wlast' = [primary_committed |-> TRUE,
                         targets |-> {r \in RegionSet : r # req.primary},
                         committed |-> committed]
    /\ UNCHANGED <<l9_up, l9_overlap>>
    /\ UNCHANGED outsideL9

\* read_data; raises[r] says that read_record on region r raises (its
\* cache or its store is unavailable)
L9ReadData(region_header, k, raises) ==
    /\ l9_up
    /\ LET read_region == GetOptimalReadRegion(k,
                              GetRegionFromHeader(region_header))
           fallback == SelectSeq(Regions, LAMBDA r : r # read_region)
           hits == {i \in 1..Len(fallback) :
                       /\ ~raises[fallback[i]]
                       /\ ReadRecordValue(l9_db, l9_cache, fallback[i], k)
                             # <<>>}
       IN  IF raises[read_region]
           THEN /\ l9_ret' = L9ReadResponse(500, FALSE, <<>>, "", "", FALSE)
                /\ UNCHANGED l9_cache
           ELSE IF ReadRecordValue(l9_db, l9_cache, read_region, k) # <<>>
           THEN /\ l9_ret' = L9ReadResponse(200, TRUE,
                       ReadRecordValue(l9_db, l9_cache, read_region, k),
                       ReadRecordSource(l9_cache, read_region, k),
                       RegionName(read_region), FALSE)
                /\ l9_cache' = ReadRecordCache(l9_db, l9_cache,
                                               read_region, k)
           ELSE IF hits # {}
           THEN LET i == CHOOSE i \in hits : \A j \in hits : i <= j
                    fallback_region == fallback[i]
                IN  /\ l9_ret' = L9ReadResponse(200, TRUE,
                           ReadRecordValue(l9_db, l9_cache,
                                           fallback_region, k),
                           ReadRecordSource(l9_cache, fallback_region, k),
                           RegionName(fallback_region), TRUE)
                    /\ l9_cache' = ReadRecordCache(l9_db, l9_cache,
                                                   fallback_region, k)
           ELSE /\ l9_ret' = L9ReadResponse(200, FALSE, <<>>, "none",
                                            RegionName(read_region), FALSE)
                /\ UNCHANGED l9_cache
    /\ UNCHANGED <<l9_up, l9_db, l9_pc, l9_req, l9_wlast, l9_overlap>>
    /\ UNCHANGED outsideL9

\* ------------------------------------- layer 10: circuit breakers in use
\* CircuitBreaker.call on the breaker b: whether it raises at once
\* ("Circuit breaker ... is OPEN") without invoking the function
CbRejects(b) ==
    b.state = "OPEN" /\ ~(b.last_failure_time # NoTime
                          /\ now - b.last_failure_time >= timeout)

\* call: an OPEN breaker whose timeout has passed becomes HALF_OPEN
CbAdmit(b) ==
    IF b.state = "OPEN" THEN [b EXCEPT !.state = "HALF_OPEN"] ELSE b

\* _on_success
CbOnSuccess(b) ==
    [b EXCEPT !.failure_count = 0,
              !.state = IF b.state = "HALF_OPEN" THEN "CLOSED" ELSE b.state]

\* _on_failure
CbOnFailure(b) ==
    [b EXCEPT !.failure_count = b.failure_count + 1,
              !.last_failure_time = now,
              !.state = IF b.failure_count + 1 >= failure_threshold
                        THEN "OPEN" ELSE b.state]

\* the breaker after call(func), func raising or not
CbCall(b, raises) ==
    IF CbRejects(b) THEN b
    ELSE IF raises THEN CbOnFailure(CbAdmit(b))
    ELSE CbOnSuccess(CbAdmit(b))

\* ------------------------------------------ layer 10: rate limiter in use
\* is_rate_limited: the entries of the client's sorted set that
\* zremrangebyscore(key, 0, window_start) leaves
WindowKept(z) == {s \in z : s > now - rate_limit_window}

\* is_rate_limited's first result; an exception (fault) is caught and the
\* request allowed
IsRateLimited(z, fault) ==
    ~fault /\ Cardinality(WindowKept(z)) >= rate_limit_requests

\* the client's sorted set after is_rate_limited
RateLimitedSet(z, fault) ==
    IF fault THEN z
    ELSE IF IsRateLimited(z, fault) THEN WindowKept(z)
    ELSE WindowKept(z) \cup {now}

\* ------------------------------------------------- layer 10: database.py
\* get_shard_for_key
GetShardForKey(k) == Shards[HexMod(Md5HexDigest(k), Len(Shards), 0) + 1]

\* get_connection and the statements run on the connection: what the
\* caller gets.  The breaker wraps only _get_conn, so a statement that
\* fails ("stmt_fails") raises past a breaker that saw a success.
StoreResult(cb, shard, outcome) ==
    IF CbRejects(cb[shard]) THEN "open" ELSE outcome

\* the breakers after get_connection(shard)
StoreBreakers(cb, shard, outcome) ==
    [cb EXCEPT ![shard] = CbCall(cb[shard], outcome = "conn_fails")]

\* ---------------------------------------------------- layer 10: cache.py
\* `if value:` on what a cache or a store returned (<<>> is None)
Truthy(value) == value # <<>> /\ value[1] # ""

\* cache_get: the value and level returned, L1 and the breakers afterwards
CacheGet(l1c, l2c, cb, k, raises) ==
    IF l1c[k] # <<>>
    THEN [value |-> l1c[k], level |-> "L1", l1 |-> l1c, cb |-> cb]
    ELSE LET b == cb["cache_l2"]
             value == IF CbRejects(b) \/ raises THEN <<>> ELSE l2c[k]
             cb2 == [cb EXCEPT !["cache_l2"] = CbCall(b, raises)]
         IN  IF Truthy(value)
             THEN [value |-> value, level |-> "L2",
                   l1 |-> [l1c EXCEPT ![k] = value], cb |-> cb2]
             ELSE [value |-> <<>>, level |-> "none", l1 |-> l1c,
                   cb |-> cb2]

\* a mutant: L1 is written only once L2 has taken the value
CacheSet_L2First(l1c, l2c, cb, k, v, raises) ==
    LET b == cb["cache_l2"]
        stored == ~CbRejects(b) /\ ~raises
    IN  [l1 |-> IF stored THEN [l1c EXCEPT ![k] = <<v>>] ELSE l1c,
         l2 |-> IF stored THEN [l2c EXCEPT ![k] = <<v>>] ELSE l2c,
         cb |-> [cb EXCEPT !["cache_l2"] = CbCall(b, raises)]]

\* a mutant: only L1 is written
CacheSet_L1Only(l1c, l2c, cb, k, v, raises) ==
    [l1 |-> [l1c EXCEPT ![k] = <<v>>], l2 |-> l2c, cb |-> cb]

\* cache_set: L1, L2 and the breakers afterwards; setex goes through the
\* cache_l2 breaker, and whatever it raises is caught
CacheSet(l1c, l2c, cb, k, v, raises) ==
    LET b == cb["cache_l2"]
        stored == ~CbRejects(b) /\ ~raises
    IN  [l1 |-> [l1c EXCEPT ![k] = <<v>>],
         l2 |-> IF stored THEN [l2c EXCEPT ![k] = <<v>>] ELSE l2c,
         cb |-> [cb EXCEPT !["cache_l2"] = CbCall(b, raises)]]

\* a mutant: L1 is cleared only once L2 has dropped the key
CacheDelete_L2First(l1c, l2c, k, raises) ==
    [l1 |-> IF raises THEN l1c ELSE [l1c EXCEPT ![k] = <<>>],
     l2 |-> IF raises THEN l2c ELSE [l2c EXCEPT ![k] = <<>>]]

\* cache_delete: L1 and L2 afterwards; delete is called on the client
\* directly, and whatever it raises is caught
CacheDelete(l1c, l2c, k, raises) ==
    [l1 |-> [l1c EXCEPT ![k] = <<>>],
     l2 |-> IF raises THEN l2c ELSE [l2c EXCEPT ![k] = <<>>]]

\* ----------------------------------------------------- layer 10: main.py
L10IdleReq == [key |-> "", value |-> "", shard |-> ""]

L10Init ==
    /\ l10_cb = [p \in Threads |-> [b \in Breakers |->
                   [state |-> "CLOSED", failure_count |-> 0,
                    last_failure_time |-> NoTime]]]
    /\ l10_zset = [c \in Clients |-> {}]
    /\ l10_l1 = [p \in Threads |-> [k \in L10Keys |-> <<>>]]
    /\ l10_l2 = [k \in L10Keys |-> <<>>]
    /\ l10_shard = [s \in ShardSet |-> [k \in L10Keys |-> <<>>]]
    /\ l10_pc = [t \in Threads |-> "idle"]
    /\ l10_req = [t \in Threads |-> L10IdleReq]
    /\ l10_ret = <<>>
    /\ l10_requests = 0
    /\ l10_wlast = [k \in L10Keys |-> [p |-> 0, overlap |-> FALSE]]

\* HealthResponse / WriteResponse / ReadResponse / HTTPException: the HTTP
\* status, success, the value and cache level of a read, and for an
\* exception its cause ("open": str(e) is "Circuit breaker ... is OPEN")
L10Response(op, k, status, success, value, level, cause) ==
    <<[op |-> op, key |-> k, status |-> status, success |-> success,
       value |-> value, level |-> level, cause |-> cause]>>

L10AllIdle == \A t \in Threads : l10_pc[t] = "idle"

\* the TTLCache drops an item whose 60 seconds have passed
L10L1Expire(p, k) ==
    /\ l10_l1[p][k] # <<>>
    /\ l10_l1' = [l10_l1 EXCEPT ![p][k] = <<>>]
    /\ UNCHANGED <<l10_cb, l10_zset, l10_l2, l10_shard, l10_pc, l10_req,
                   l10_ret, l10_requests>>
    /\ UNCHANGED <<l10_wlast, outsideL10>>

\* Redis drops a key whose settings.cache_ttl seconds have passed
L10L2Expire(k) ==
    /\ l10_l2[k] # <<>>
    /\ l10_l2' = [l10_l2 EXCEPT ![k] = <<>>]
    /\ UNCHANGED <<l10_cb, l10_zset, l10_l1, l10_shard, l10_pc, l10_req,
                   l10_ret, l10_requests>>
    /\ UNCHANGED <<l10_wlast, outsideL10>>

\* health: is_shard_healthy for each shard (get_connection, SELECT 1),
\* is_cache_healthy (a ping), is_rate_limited("health_check"),
\* get_all_states
L10Health(p, outcomes, fault) ==
    /\ l10_pc[p] = "idle"
    /\ l10_requests < MaxL10Requests
    /\ l10_requests' = l10_requests + 1
    /\ l10_cb' = [l10_cb EXCEPT ![p] = [b \in Breakers |->
                    IF b \in ShardSet
                    THEN CbCall(l10_cb[p][b], outcomes[b] = "conn_fails")
                    ELSE l10_cb[p][b]]]
    /\ l10_zset' = [l10_zset EXCEPT !["health_check"] =
                      RateLimitedSet(l10_zset["health_check"], fault)]
    /\ l10_ret' = L10Response("health", "", 200,
                     \A s \in ShardSet :
                        StoreResult(l10_cb[p], s, outcomes[s]) = "ok",
                     <<>>, "none", "none")
    /\ UNCHANGED <<l10_l1, l10_l2, l10_shard, l10_pc, l10_req>>
    /\ UNCHANGED <<l10_wlast, outsideL10>>

\* write, up to and including write_record: verify_api_key,
\* check_rate_limit, then the upsert and its commit on the key's shard
L10WriteBegin(t, client, key_ok, fault, k, v, outcome) ==
    /\ l10_pc[t] = "idle"
    /\ l10_requests < MaxL10Requests
    /\ l10_requests' = l10_requests + 1
    /\ IF ~key_ok
       THEN /\ l10_ret' = L10Response("write", k, 401, FALSE, <<>>, "none",
                                      "none")
            /\ UNCHANGED <<l10_zset, l10_cb, l10_shard, l10_pc, l10_req>>
       ELSE /\ l10_zset' = [l10_zset EXCEPT ![client] =
                              RateLimitedSet(l10_zset[client], fault)]
            /\ IF IsRateLimited(l10_zset[client], fault)
               THEN /\ l10_ret' = L10Response("write", k, 429, FALSE, <<>>,
                                              "none", "none")
                    /\ UNCHANGED <<l10_cb, l10_shard, l10_pc, l10_req>>
               ELSE LET shard == GetShardForKey(k)
                        result == StoreResult(l10_cb[t], shard, outcome)
                    IN  /\ l10_cb' = [l10_cb EXCEPT ![t] =
                                        StoreBreakers(l10_cb[t], shard,
                                                      outcome)]
                        /\ IF result = "ok"
                           THEN /\ l10_shard' =
                                     [l10_shard EXCEPT ![shard][k] = <<v>>]
                                /\ l10_pc' = [l10_pc EXCEPT
                                                ![t] = "cache_delete"]
                                /\ l10_req' = [l10_req EXCEPT ![t] =
                                     [key |-> k, value |-> v,
                                      shard |-> shard]]
                                /\ UNCHANGED l10_ret
                           ELSE /\ l10_ret' = L10Response("write", k, 500,
                                     FALSE, <<>>, "none", result)
                                /\ UNCHANGED <<l10_shard, l10_pc, l10_req>>
    /\ l10_wlast' =
          IF /\ key_ok
             /\ ~IsRateLimited(l10_zset[client], fault)
             /\ StoreResult(l10_cb[t], GetShardForKey(k), outcome) = "ok"
          THEN [l10_wlast EXCEPT ![k] =
                  [p |-> t,
                   overlap |-> \E u \in Threads \ {t} :
                                  l10_pc[u] # "idle" /\ l10_req[u].key = k]]
          ELSE l10_wlast
    /\ UNCHANGED <<l10_l1, l10_l2>>
    /\ UNCHANGED outsideL10

\* write: cache_delete(request.key)
L10WriteCacheDelete(t, raises) ==
    /\ l10_pc[t] = "cache_delete"
    /\ LET c == CacheDelete(l10_l1[t], l10_l2, l10_req[t].key, raises)
       IN  /\ l10_l1' = [l10_l1 EXCEPT ![t] = c.l1]
           /\ l10_l2' = c.l2
    /\ l10_pc' = [l10_pc EXCEPT ![t] = "cache_set"]
    /\ UNCHANGED <<l10_cb, l10_zset, l10_shard, l10_req, l10_ret,
                   l10_requests>>
    /\ UNCHANGED <<l10_wlast, outsideL10>>

\* write: cache_set(request.key, request.value) and the response
L10WriteCacheSet(t, raises) ==
    /\ l10_pc[t] = "cache_set"
    /\ LET c == CacheSet(l10_l1[t], l10_l2, l10_cb[t], l10_req[t].key,
                         l10_req[t].value, raises)
       IN  /\ l10_l1' = [l10_l1 EXCEPT ![t] = c.l1]
           /\ l10_l2' = c.l2
           /\ l10_cb' = [l10_cb EXCEPT ![t] = c.cb]
    /\ l10_ret' = L10Response("write", l10_req[t].key, 200, TRUE, <<>>,
                              "none", "none")
    /\ l10_pc' = [l10_pc EXCEPT ![t] = "idle"]
    /\ l10_req' = [l10_req EXCEPT ![t] = L10IdleReq]
    /\ UNCHANGED <<l10_zset, l10_shard, l10_requests>>
    /\ UNCHANGED <<l10_wlast, outsideL10>>

\* read: verify_api_key, check_rate_limit, cache_get, and on a miss
\* read_record on the key's shard and cache_set of what it found
L10Read(p, client, key_ok, fault, k, get_raises, outcome, set_raises) ==
    /\ l10_pc[p] = "idle"
    /\ l10_requests < MaxL10Requests
    /\ l10_requests' = l10_requests + 1
    /\ IF ~key_ok
       THEN /\ l10_ret' = L10Response("read", k, 401, FALSE, <<>>, "none",
                                      "none")
            /\ UNCHANGED <<l10_zset, l10_cb, l10_l1, l10_l2>>
       ELSE /\ l10_zset' = [l10_zset EXCEPT ![client] =
                              RateLimitedSet(l10_zset[client], fault)]
            /\ IF IsRateLimited(l10_zset[client], fault)
               THEN /\ l10_ret' = L10Response("read", k, 429, FALSE, <<>>,
                                              "none", "none")
                    /\ UNCHANGED <<l10_cb, l10_l1, l10_l2>>
               ELSE LET g == CacheGet(l10_l1[p], l10_l2, l10_cb[p], k,
                                      get_raises)
                        shard == GetShardForKey(k)
                        result == StoreResult(g.cb, shard, outcome)
                        cb2 == StoreBreakers(g.cb, shard, outcome)
                        value == l10_shard[shard][k]
                        c == CacheSet(g.l1, l10_l2, cb2, k, value[1],
                                      set_raises)
                    IN  IF Truthy(g.value)
                        THEN /\ l10_ret' = L10Response("read", k, 200, TRUE,
                                              g.value, g.level, "none")
                             /\ l10_l1' = [l10_l1 EXCEPT ![p] = g.l1]
                             /\ l10_cb' = [l10_cb EXCEPT ![p] = g.cb]
                             /\ UNCHANGED l10_l2
                        ELSE IF result # "ok"
                        THEN /\ l10_ret' = L10Response("read", k, 500, FALSE,
                                              <<>>, "none", result)
                             /\ l10_l1' = [l10_l1 EXCEPT ![p] = g.l1]
                             /\ l10_cb' = [l10_cb EXCEPT ![p] = cb2]
                             /\ UNCHANGED l10_l2
                        ELSE IF Truthy(value)
                        THEN /\ l10_ret' = L10Response("read", k, 200, TRUE,
                                              value, "none", "none")
                             /\ l10_l1' = [l10_l1 EXCEPT ![p] = c.l1]
                             /\ l10_l2' = c.l2
                             /\ l10_cb' = [l10_cb EXCEPT ![p] = c.cb]
                        ELSE /\ l10_ret' = L10Response("read", k, 200, FALSE,
                                              <<>>, "none", "none")
                             /\ l10_l1' = [l10_l1 EXCEPT ![p] = g.l1]
                             /\ l10_cb' = [l10_cb EXCEPT ![p] = cb2]
                             /\ UNCHANGED l10_l2
    /\ UNCHANGED <<l10_shard, l10_pc, l10_req>>
    /\ UNCHANGED <<l10_wlast, outsideL10>>

\* ------------------------------------------------------- specifications
Init == /\ now = 0
        /\ CBInit
        /\ RLInit
        /\ CacheInit
        /\ L5Init
        /\ RouterInit
        /\ L4Init
        /\ L6Init
        /\ L7Init
        /\ L9Init
        /\ L10Init

NextCB ==
    \/ Tick
    \/ \E t \in Threads : Call(t)
    \/ \E t \in Threads : OnSuccess(t)
    \/ \E t \in Threads : OnFailure(t)
    \/ Reset

\* one call (or reset) at a time
NextCBSeq ==
    \/ Tick
    \/ \E t \in Threads : AllIdle /\ Call(t)
    \/ \E t \in Threads : OnSuccess(t)
    \/ \E t \in Threads : OnFailure(t)
    \/ AllIdle /\ Reset

SpecCB == Init /\ [][NextCB]_vars

\* the breaker with concurrent callers whose wrapped operation stops
\* failing while a cooldown's worth of clock is still left: the clock
\* keeps advancing, calls keep arriving and every invoked operation
\* returns
NextCBLive ==
    \/ Tick
    \/ \E t \in Threads : Call(t)
    \/ \E t \in Threads : OnSuccess(t)
    \/ \E t \in Threads : now + timeout <= MaxTime /\ OnFailure(t)

SpecCBLive ==
    /\ Init
    /\ [][NextCBLive]_vars
    /\ WF_vars(Tick)
    /\ \A t \in Threads : WF_vars(Call(t))
    /\ \A t \in Threads : WF_vars(OnSuccess(t))
SpecCBSeq == Init /\ [][NextCBSeq]_vars

NextRL ==
    \/ Tick
    \/ InitRateLimiter
    \/ \E t \in Threads, c \in Clients : RLBegin(t, c)
    \/ RLSteps

\* one call at a time
NextRLSeq ==
    \/ Tick
    \/ InitRateLimiter
    \/ \E t \in Threads, c \in Clients : RLAllIdle /\ RLBegin(t, c)
    \/ RLSteps

SpecRL == Init /\ [][NextRL]_vars
SpecRLSeq == Init /\ [][NextRLSeq]_vars

NextCache ==
    \/ Tick
    \/ InitCaches
    \/ CloseCaches
    \/ \E k \in Keys : GetFromCache(k)
    \/ \E k \in Keys, v \in Values : SetInCache(k, v)
    \/ \E k \in Keys, v \in Values : SetInL2Only(k, v)
    \/ \E k \in Keys, v \in Values : SetInL1Only(k, v)
    \/ \E k \in Keys : InvalidateCache(k)
    \/ ClearAllCaches

SpecCache == Init /\ [][NextCache]_vars

NextL5 ==
    \/ Tick
    \/ L5Startup
    \/ L5Shutdown
    \/ \E k \in Keys, v \in Values : L5WriteData(k, v)
    \/ \E k \in Keys : L5ReadData(k)
    \/ L5ClearCache

SpecL5 == Init /\ [][NextL5]_vars

\* the shard router, called in one process after another
NextRouter ==
    \/ RouterRestart
    \/ \E k \in RouterKeys : RouterCall(k)

SpecRouter == Init /\ [][NextRouter]_vars

\* layer 4, requests served by several processes at once
NextL4 ==
    \/ L4Startup
    \/ L4Shutdown
    \/ \E k \in L4Keys : L4CacheExpire(k)
    \/ \E t \in Threads, k \in L4Keys, v \in Values : L4WriteBegin(t, k, v)
    \/ \E t \in Threads, k \in L4Keys : L4ReadBegin(t, k)
    \/ L4Steps

\* layer 4, one request at a time
NextL4Seq ==
    \/ L4Startup
    \/ L4Shutdown
    \/ \E k \in L4Keys : L4CacheExpire(k)
    \/ \E t \in Threads, k \in L4Keys, v \in Values :
          L4AllIdle /\ L4WriteBegin(t, k, v)
    \/ \E t \in Threads, k \in L4Keys : L4AllIdle /\ L4ReadBegin(t, k)
    \/ L4Steps

SpecL4 == Init /\ [][NextL4]_vars
SpecL4Seq == Init /\ [][NextL4Seq]_vars

\* layer 6: the API process and the worker process
L6Api ==
    \/ L6Shutdown
    \/ \E k \in L6Keys : L6CacheExpire(k)
    \/ \E k \in L6Keys : L6WriteData(k)
    \/ \E k \in L6Keys : L6ReadBegin(k)
    \/ L6ReadSelect
    \/ L6ReadPopulate

NextL6 ==
    \/ \E connected \in BOOLEAN : L6Startup(connected)
    \/ L6Api
    \/ \E connected \in BOOLEAN : WorkerStart(connected)
    \/ WorkerSignal
    \/ WorkerExit
    \/ WorkerPoll
    \/ \E raises \in BOOLEAN : WorkerLpop(raises)
    \/ WorkerSleep
    \/ \E fails \in DbFails : WorkerApply(fails)
    \/ \E fails \in DbFails : WorkerCommit(fails)
    \/ WorkerCrash

SpecL6 == Init /\ [][NextL6]_vars

\* layer 6 with the worker running and no error in the worker, the queue
\* or the store; the worker's loop keeps taking steps
NextL6Live ==
    \/ \E connected \in BOOLEAN : L6Startup(connected)
    \/ L6Api
    \/ WorkerRun

SpecL6Live == Init /\ [][NextL6Live]_vars /\ WF_vars(WorkerRun)

\* layer 7: the API process and the projector process
L7Commands ==
    \/ \E connected \in BOOLEAN : L7Startup(connected)
    \/ L7Shutdown
    \/ \E type \in EventTypes, k \in L7Keys : L7WriteCommand(type, k)

L7Api ==
    \/ L7Commands
    \/ \E k \in L7Keys : L7ReadQuery(k)

NextL7 ==
    \/ L7Api
    \/ \E connected \in BOOLEAN : ProjectorStart(connected)
    \/ ProjectorSignal
    \/ ProjectorExit
    \/ \E raises \in BOOLEAN : ProjectorPoll(raises)
    \/ ProjectorSleep
    \/ \E fails \in DbFails : ProjectEvent(fails)
    \/ ProjectorAdvance
    \/ ProjectorCrash

SpecL7 == Init /\ [][NextL7]_vars

\* layer 7 with no error in the projector, the event store it reads or the
\* read database it writes; the projector's loop keeps taking steps, and a
\* projector that is shut down is started again.  The API takes commands
\* (with their faults); its read queries, which touch read_count only, are
\* left to SpecL7.
NextL7Live ==
    \/ L7Commands
    \/ ProjectorRun
    \/ ProjectorRestartSignal

SpecL7Live == Init /\ [][NextL7Live]_vars /\ WF_vars(ProjectorRun)

\* layer 9, requests one at a time, with faults in the regional stores and
\* caches
NextL9 ==
    \/ L9Startup
    \/ L9Shutdown
    \/ \E r \in RegionSet, k \in L9Keys : L9CacheExpire(r, k)
    \/ \E t \in Threads, h \in RegionHeaders, k \in L9Keys, v \in Values,
          outcome \in WriteOutcomes :
          L9AllIdle /\ L9WriteBegin(t, h, k, v, outcome)
    \/ \E t \in Threads, outcome \in WriteOutcomes :
          L9WriteReplicate(t, outcome)
    \/ \E h \in RegionHeaders, k \in L9Keys,
          raises \in [RegionSet -> BOOLEAN] :
          L9AllIdle /\ L9ReadData(h, k, raises)

SpecL9 == Init /\ [][NextL9]_vars

\* layer 9, requests served by several processes at once, no faults
NextL9Conc ==
    \/ L9Startup
    \/ L9Shutdown
    \/ \E r \in RegionSet, k \in L9Keys : L9CacheExpire(r, k)
    \/ \E t \in Threads, h \in RegionHeaders, k \in L9Keys, v \in Values :
          L9WriteBegin(t, h, k, v, "ok")
    \/ \E t \in Threads : L9WriteReplicate(t, "ok")
    \/ \E h \in RegionHeaders, k \in L9Keys :
          L9ReadData(h, k, [r \in RegionSet |-> FALSE])

SpecL9Conc == Init /\ [][NextL9Conc]_vars

\* layer 10, one API process, requests one at a time (sent without an
\* X-Client-Id header, so as client "default"), with faults in the
\* shards, the L2 cache and the rate limiter's store
L10Tick == now < MaxL10Time /\ Tick

NextL10 ==
    \/ L10Tick
    \/ \E k \in L10Keys : L10L1Expire(1, k)
    \/ \E k \in L10Keys : L10L2Expire(k)
    \/ \E outcomes \in [ShardSet -> StoreOutcomes], fault \in BOOLEAN :
          L10AllIdle /\ L10Health(1, outcomes, fault)
    \/ \E key_ok \in BOOLEAN, fault \in BOOLEAN, k \in L10Keys,
          v \in Values, outcome \in StoreOutcomes :
          L10AllIdle
          /\ L10WriteBegin(1, "default", key_ok, fault, k, v, outcome)
    \/ \E t \in Threads, raises \in BOOLEAN : L10WriteCacheDelete(t, raises)
    \/ \E t \in Threads, raises \in BOOLEAN : L10WriteCacheSet(t, raises)
    \/ \E key_ok \in BOOLEAN, fault \in BOOLEAN, k \in L10Keys,
          get_raises \in BOOLEAN, outcome \in StoreOutcomes,
          set_raises \in BOOLEAN :
          L10AllIdle
          /\ L10Read(1, "default", key_ok, fault, k, get_raises, outcome,
                     set_raises)

SpecL10 == Init /\ [][NextL10]_vars

\* layer 10, writes served by several API processes at once, no faults
NextL10Conc ==
    \/ \E p \in Threads, k \in L10Keys : L10L1Expire(p, k)
    \/ \E k \in L10Keys : L10L2Expire(k)
    \/ \E t \in Threads, client \in Clients, k \in L10Keys, v \in Values :
          L10WriteBegin(t, client, TRUE, FALSE, k, v, "ok")
    \/ \E t \in Threads : L10WriteCacheDelete(t, FALSE)
    \/ \E t \in Threads : L10WriteCacheSet(t, FALSE)

SpecL10Conc == Init /\ [][NextL10Conc]_vars

\* layer 10, authenticated requests one at a time, no faults; the values
\* written include the empty string
NextL10RoundTrip ==
    \/ L10Tick
    \/ \E k \in L10Keys : L10L1Expire(1, k)
    \/ \E k \in L10Keys : L10L2Expire(k)
    \/ \E k \in L10Keys, v \in L10Values :
          L10AllIdle /\ L10WriteBegin(1, "default", TRUE, FALSE, k, v, "ok")
    \/ \E t \in Threads : L10WriteCacheDelete(t, FALSE)
    \/ \E t \in Threads : L10WriteCacheSet(t, FALSE)
    \/ \E k \in L10Keys :
          L10AllIdle
          /\ L10Read(1, "default", TRUE, FALSE, k, FALSE, "ok", FALSE)

SpecL10RoundTrip == Init /\ [][NextL10RoundTrip]_vars

\* ------------------------------------------------ claims: circuit breaker
CooldownRunning ==
    last_failure_time # NoTime /\ now - last_failure_time < timeout

InFlightProbes == {t \in Threads : cb_pc[t] = "infunc" /\ cb_probe[t]}

\* C1: once failure_threshold wrapped operations in a row have raised
\* (starting from CLOSED, no success or reset() since), every call() made
\* while fewer than `timeout` seconds have passed since the last failure
\* raises at once ("... is OPEN") and does not invoke the wrapped operation.
C1_OpenFailsFast ==
    [][\A t \in Threads :
          (cb_consec >= failure_threshold /\ CooldownRunning /\ Call(t))
              => (cb_pc'[t] = "idle" /\ cb_ret'.outcome = "open")]_vars

\* C1 witness: the breaker has just rejected a call, the threshold of
\* consecutive failures being reached and the cooldown still running.
C1_Witness ==
    /\ cb_ret.outcome = "open"
    /\ cb_consec >= failure_threshold
    /\ CooldownRunning
    /\ AllIdle

\* C2: one call at a time: a call() that finds the breaker OPEN with the
\* cooldown elapsed moves it to HALF_OPEN and invokes the wrapped operation,
\* and when that operation returns normally the breaker is CLOSED with
\* failure_count = 0.
C2_ProbeSuccessCloses ==
    [][\A t \in Threads :
          /\ (cb_state = "OPEN" /\ ~CooldownRunning /\ Call(t))
                => (cb_state' = "HALF_OPEN" /\ cb_pc'[t] = "infunc")
          /\ (cb_pc[t] = "infunc" /\ cb_probe[t]
                /\ cb_pc'[t] = "idle" /\ cb_ret'.outcome = "ok")
                => (cb_state' = "CLOSED" /\ failure_count' = 0)]_vars

\* C2 witness: a probe sent from OPEN has returned normally and the breaker
\* is CLOSED again.
C2_Witness ==
    /\ cb_ret = [outcome |-> "ok", probe |-> TRUE]
    /\ cb_state = "CLOSED"
    /\ failure_count = 0
    /\ last_failure_time # NoTime

\* C3: whenever a wrapped operation raises while the breaker is HALF_OPEN,
\* the breaker is OPEN when that call() has returned, for every interleaving
\* of concurrent calls.
C3_HalfOpenFailureOpens ==
    [][\A t \in Threads :
          (cb_state = "HALF_OPEN" /\ cb_pc[t] = "infunc"
             /\ cb_pc'[t] = "idle" /\ cb_ret'.outcome = "failed")
              => cb_state' = "OPEN"]_vars

\* C4 as stated: while the breaker is HALF_OPEN at most one probe is in
\* flight.
C4_SingleProbe ==
    cb_state = "HALF_OPEN" => Cardinality(InFlightProbes) <= 1

\* C4 as amended: the breaker holds a call back only while it is OPEN with
\* the cooldown running; a call() that finds it HALF_OPEN always invokes its
\* wrapped operation, whatever is already in flight, and leaves it HALF_OPEN.
C4_HalfOpenAdmitsAll ==
    [][\A t \in Threads :
          (cb_state = "HALF_OPEN" /\ cb_pc[t] = "idle" /\ Call(t))
              => (cb_pc'[t] = "infunc" /\ cb_state' = "HALF_OPEN")]_vars

\* C4 witness: two probes in flight at once in a HALF_OPEN breaker.
C4_Witness ==
    cb_state = "HALF_OPEN" /\ Cardinality(InFlightProbes) >= 2

\* -------------------------------------------------- claims: rate limiter
RECURSIVE SumOver(_, _)
SumOver(f, S) ==
    IF S = {} THEN 0
    ELSE LET x == CHOOSE y \in S : TRUE IN f[x] + SumOver(f, S \ {x})

\* calls of client c admitted in the `rate_limit_window` seconds that end
\* with second `time`
AdmittedInWindow(c, time) ==
    SumOver(rl_admitted[c],
            {s \in Times : time - rate_limit_window < s /\ s <= time})

RLReturns(t) == rl_pc[t] # "idle" /\ rl_pc'[t] = "idle"

\* C5: calls made one at a time, the counter store reachable: in every
\* interval of rate_limit_window seconds at most rate_limit_requests calls
\* of a client are admitted.
C5_WindowBound ==
    ~rl_faulted =>
        \A c \in Clients, time \in Times :
            AdmittedInWindow(c, time) <= rate_limit_requests

\* C6: calls made one at a time, the counter store reachable: a call is
\* admitted while fewer than rate_limit_requests calls were admitted in the
\* window that ends with it (so the first rate_limit_requests calls are, and
\* so is a call made once the window has passed), and a call that finds
\* rate_limit_requests admitted calls in its window is rejected with
\* reset_in_seconds > 0.
C6_AdmitThenReject ==
    [][\A t \in Threads :
          (RLReturns(t) /\ ~rl_faulted')
              => IF AdmittedInWindow(rl_client[t], current_time[t])
                       >= rate_limit_requests
                   THEN rl_ret'.is_limited /\ rl_ret'.reset_in > 0
                   ELSE ~rl_ret'.is_limited]_vars

\* C7: concurrent calls for one client are never all admitted beyond the
\* limit: with the store reachable, the timestamps of admitted requests
\* recorded in a client's window never number more than
\* rate_limit_requests.
C7_NoOverAdmission ==
    ~rl_faulted =>
        \A c \in Clients : Cardinality(zset[c]) <= rate_limit_requests

\* C8: a call that finds no client, or during which a store operation
\* raises, returns (False, rate_limit_requests, 0).
C8_FailOpen ==
    rl_ret.path \in {"uninit", "error"} =>
        /\ ~rl_ret.is_limited
        /\ rl_ret.remaining = rate_limit_requests
        /\ rl_ret.reset_in = 0

\* C8 witness: a store operation raised after the request had been recorded
\* and the call returned the fail-open answer.
C8_Witness ==
    /\ rl_ret = [is_limited |-> FALSE, remaining |-> rate_limit_requests,
                 reset_in |-> 0, path |-> "error"]
    /\ rate_limiter_client
    /\ \E c \in Clients : zset[c] # {}
    /\ RLAllIdle

\* --------------------------------------------------- claims: tiered cache
JustReturned(op) == c_ret.op = op /\ c_ret.at = now

\* C9: (a) for a key held by L2 and not by L1, get_from_cache returns the
\* value tagged "L2"; (b) once a get_from_cache has returned a value tagged
\* "L2", the next get_from_cache for that key (nothing invalidated or
\* expired in between, Redis reachable) returns the same value tagged "L1".
C9_Promotion ==
    /\ \A k \in Keys :
          (redis_client /\ l2[k] # <<>> /\ GetFromL1(k) = <<>>)
              => Lookup(k, FALSE) =
                    [data |-> <<JsonLoads(l2[k][1].payload)>>, level |-> "L2"]
    /\ (JustReturned("get") /\ c_ret.level = "L2")
          => Lookup(c_ret.key, FALSE) = [data |-> c_ret.data, level |-> "L1"]

\* C10: L2 reachable: once invalidate_cache(key) has returned,
\* get_from_cache(key) returns a miss and so does get_from_l2(key).
C10_InvalidationComplete ==
    (c_ret.op = "invalidate" /\ redis_client /\ ~c_ret.l2_error)
        => /\ Lookup(c_ret.key, FALSE) = [data |-> <<>>, level |-> "None"]
           /\ GetFromL2(c_ret.key, FALSE) = <<>>

\* C10 witness: invalidate_cache has just removed a key that Redis held
\* (put there by set_in_cache), and a lookup now misses.
C10_Witness ==
    /\ JustReturned("invalidate")
    /\ redis_client /\ ~c_ret.l2_error
    /\ c_ret.data # <<>>
    /\ Lookup(c_ret.key, FALSE).level = "None"

L4Commits(t, sh, k) ==
    /\ l4_pc[t] = "upsert" /\ l4_pc'[t] = "invalidate"
    /\ l4_req[t].key = k /\ l4_req[t].shard_id = sh

\* C12: a committed write of (k, v) leaves v stored for k; a row, once
\* inserted, stays, its created_at never changes and its updated_at never
\* decreases, and a committed write of an existing key makes updated_at
\* strictly greater.
C12_UpsertTimestamps ==
    [][\A sh \in ShardPools, k \in L4Keys :
          /\ \A t \in Threads :
                L4Commits(t, sh, k)
                    => /\ l4_shard'[sh][k] # <<>>
                       /\ l4_shard'[sh][k][1].value = l4_req[t].value
                       /\ l4_shard[sh][k] # <<>> =>
                             l4_shard'[sh][k][1].updated_at
                                 > l4_shard[sh][k][1].updated_at
          /\ l4_shard[sh][k] # <<>>
                => /\ l4_shard'[sh][k] # <<>>
                   /\ l4_shard'[sh][k][1].created_at
                         = l4_shard[sh][k][1].created_at
                   /\ l4_shard'[sh][k][1].updated_at
                         >= l4_shard[sh][k][1].updated_at]_vars

\* a write of an existing key has been answered: the row is younger than
\* its creation
C12_Witness ==
    /\ l4_ret.op = "write" /\ l4_ret.status = 200
    /\ l4_shard[l4_ret.shard_id][l4_ret.key] # <<>>
    /\ l4_shard[l4_ret.shard_id][l4_ret.key][1].value = "v2"
    /\ l4_shard[l4_ret.shard_id][l4_ret.key][1].updated_at
          > l4_shard[l4_ret.shard_id][l4_ret.key][1].created_at

C14_OneShardPerKey ==
    /\ \A sh \in ShardPools, k \in L4Keys :
          l4_shard[sh][k] # <<>> => sh = GetShardId(k)
    /\ \A t \in Threads :
          l4_pc[t] \in {"select", "populate"}
              => l4_req[t].shard_id = GetShardId(l4_req[t].key)
    /\ (l4_ret.op = "read" /\ l4_ret.status = 200 /\ ~l4_ret.from_cache)
          => l4_ret.consulted = {GetShardId(l4_ret.key)}

\* both keys are stored, and a read has found its key in the database
C14_Witness ==
    /\ \A k \in L4Keys : \E sh \in ShardPools : l4_shard[sh][k] # <<>>
    /\ l4_ret.op = "read" /\ l4_ret.success /\ ~l4_ret.from_cache
    /\ l4_shard[l4_ret.shard_id][l4_ret.key] # <<>>

\* ------------------------------------------------------------- layer 6
\* the API answers a write with queued=true in this step
L6Queues(k) == L6WriteData(k) /\ l6_ret'.queued

L6Queued == {l6_queue[i] : i \in 1..Len(l6_queue)}
L6InHand == {w_writes[i] : i \in 1..Len(w_writes)}

\* C16: no accepted write is lost: each is committed to the store, or in
\* the queue, or in the batch the running worker is busy with.
C16_AtLeastOnce ==
    \A w \in l6_accepted :
        \/ w.id \in l6_applied
        \/ w \in L6Queued
        \/ w \in L6InHand

\* C17: when process_writes gives up a batch at an item other than the
\* first, the items upserted before it are committed when it returns.
C17_PartialBatchCommitted ==
    [][(w_pc = "apply" /\ w_pc' = WorkerAfterError /\ Len(w_tx) > 0)
          => BatchIds(w_tx) \subseteq l6_applied']_vars

\* C18: the worker's loop ends only when the process is signalled or
\* killed, never because dequeuing or applying a batch failed.
C18_LoopSurvivesFailure ==
    [][(w_pc # "stopped" /\ w_pc' = "stopped")
          => (WorkerExit \/ WorkerCrash)]_vars

\* the running worker gave up a batch after an exception and has since
\* committed a write that was queued after that
C18_Witness ==
    /\ w_pc # "stopped"
    /\ l6_failed_at > 0
    /\ \E i \in l6_applied : i >= l6_failed_at

\* ------------------------------------------------------------- layer 7
\* the id of the last event of the stream that is for key k, 0 when there
\* is none
LastEventFor(k) ==
    LET ids == {i \in 1..Len(l7_stream) : l7_stream[i].key = k}
    IN  IF ids = {} THEN 0 ELSE CHOOSE i \in ids : \A j \in ids : j <= i

\* C19: a key whose event is in the stream is eventually in the read
\* model, if the projector keeps polling; and whenever the projector's
\* cursor has passed the last event for a key, the read model's value
\* for the key is that event's value.
C19_EventualProjection ==
    /\ \A e \in 1..MaxL7Commands :
          (Len(l7_stream) >= e)
             ~> (Len(l7_stream) >= e /\ l7_read[l7_stream[e].key] # <<>>)
    /\ [](\A k \in L7Keys :
             (LastEventFor(k) # 0 /\ last_event_id >= LastEventFor(k))
                => /\ l7_read[k] # <<>>
                   /\ l7_read[k][1].value = LastEventFor(k))

\* the cursor has passed the second of two events for one key, and the
\* read model holds the second one's value
C19_Witness ==
    \E k \in L7Keys :
       /\ LastEventFor(k) >= 2
       /\ \E i \in 1..(LastEventFor(k) - 1) : l7_stream[i].key = k
       /\ last_event_id >= LastEventFor(k)
       /\ l7_read[k] # <<>>
       /\ l7_read[k][1].value = LastEventFor(k)
       /\ l7_read[k][1].write_count >= 2

\* C20: the projector's cursor is past an event only if the event's
\* upsert has been committed to the read database.
C20_CursorAfterApply ==
    \A e \in 1..Len(l7_stream) :
       last_event_id >= e => e \in l7_projected

\* C21: applying an event whose upsert is what the row of its key holds
\* already (the event applied a second time, nothing in between) leaves
\* the row's value and write_count as they are.
C21_ApplyIdempotent ==
    [][\A k \in L7Keys :
          (/\ p_pc = "project"
           /\ p_pc' = "advance"
           /\ Head(p_events) \in l7_projected
           /\ l7_stream[Head(p_events)].key = k
           /\ l7_read[k] # <<>>
           /\ l7_read[k][1].value = Head(p_events))
             => /\ l7_read'[k][1].value = l7_read[k][1].value
                /\ l7_read'[k][1].write_count = l7_read[k][1].write_count]_vars

\* a step in which project_event commits the upsert of an event
ProjectorApplies(e) ==
    /\ p_pc = "project"
    /\ p_pc' = "advance"
    /\ Head(p_events) = e
    /\ e \in l7_projected'
    /\ p_run_last'[l7_stream[e].key] = e

\* C22: within one projector process, an event is applied only after the
\* events of its key that precede it in the stream: the event applied
\* is later in the stream than the one this process applied last for
\* the same key.
C22_PerKeyOrder ==
    [][\A e \in 1..Len(l7_stream) :
          ProjectorApplies(e) => e > p_run_last[l7_stream[e].key]]_vars

\* one projector process has applied two events of one key, the later one
\* last
C22_Witness ==
    \E k \in L7Keys :
       /\ p_starts = 1
       /\ p_run_last[k] = LastEventFor(k)
       /\ \E i \in 1..(LastEventFor(k) - 1) :
              l7_stream[i].key = k /\ i \in l7_projected
\* ------------------------------------------------------------- layer 9
\* the names of the regions of a set, in list order
RegionNames(S) ==
    LET chosen == SelectSeq(Regions, LAMBDA r : r \in S)
    IN  [i \in 1..Len(chosen) |-> RegionName(chosen[i])]

\* C23: a write whose primary upsert was committed is answered with
\* success; write_record is then called on every other region, whatever
\* happened on the ones before; and replicated_to names exactly the
\* targets whose store took the value.
C23_ReplicationReport ==
    l9_ret.op = "write" =>
       /\ l9_wlast.primary_committed
             => /\ l9_ret.status = 200
                /\ l9_ret.success
                /\ l9_wlast.targets = RegionSet \ {r \in RegionSet :
                       RegionName(r) = l9_ret.primary_region}
       /\ l9_ret.status = 200
             => l9_ret.replicated_to = RegionNames(l9_wlast.committed)

\* C24: a read whose own region's read_record raises, while another
\* region that answers holds the key, is answered with that value.
C24_FallbackOnUnavailable ==
    [][\A h \in RegionHeaders, k \in L9Keys,
          raises \in [RegionSet -> BOOLEAN] :
          (/\ L9ReadData(h, k, raises)
           /\ raises[GetRegionFromHeader(h)]
           /\ \E r \in RegionSet :
                 /\ ~raises[r]
                 /\ ReadRecordValue(l9_db, l9_cache, r, k) # <<>>)
             => /\ l9_ret'.status = 200
                /\ l9_ret'.success
                /\ l9_ret'.value # <<>>]_vars

\* C25 as stated: when no write is in progress, the three regional stores
\* hold the same value for every key.
C25_ReplicasAgree ==
    L9AllIdle =>
       \A k \in L9Keys : \A r1, r2 \in RegionSet :
          l9_db[r1][k] = l9_db[r2][k]

\* C25, amended: when no write is in progress, the three regional stores
\* hold the same value for every key whose last write did not overlap
\* another write of that key.
C25_ReplicasAgreeAfterSerialWrite ==
    L9AllIdle =>
       \A k \in L9Keys :
          ~l9_overlap[k] =>
             \A r1, r2 \in RegionSet : l9_db[r1][k] = l9_db[r2][k]

\* a write through one primary region has replaced, in all three stores,
\* the value written before
C25_Witness ==
    /\ L9AllIdle
    /\ l9_ret.op = "write"
    /\ l9_ret.status = 200
    /\ l9_ret.primary_region = "EU-WEST"
    /\ Len(l9_ret.replicated_to) = 2
    /\ \E k \in L9Keys :
          /\ ~l9_overlap[k]
          /\ \A r \in RegionSet : l9_db[r][k] = <<"v2">>
          /\ l9_cache["us-east"][k] = <<>>
HealthStep ==
    /\ l10_requests' = l10_requests + 1
    /\ l10_pc' = l10_pc
    /\ l10_ret' # <<>>
    /\ l10_ret'[1].op = "health"

\* C26: the health operation mutates no state: a call of /health leaves
\* every rate-limiter window, every circuit breaker's state and failure
\* count, the caches and the stores exactly as they were.
C26_HealthReadOnly ==
    [][HealthStep =>
          /\ l10_zset' = l10_zset
          /\ \A p \in Threads, b \in Breakers :
                /\ l10_cb'[p][b].state = l10_cb[p][b].state
                /\ l10_cb'[p][b].failure_count = l10_cb[p][b].failure_count
          /\ l10_l1' = l10_l1
          /\ l10_l2' = l10_l2
          /\ l10_shard' = l10_shard]_vars

\* C27: a request rejected because a circuit breaker is OPEN gets an error
\* the caller can tell apart from a failure of the dependency itself: a
\* service-unavailable response (503), not the response a raw dependency
\* failure gets.
C27_OpenIsServiceUnavailable ==
    l10_ret # <<>> /\ l10_ret[1].cause = "open" => l10_ret[1].status = 503

\* C28: cache_delete(k) always returns (a failing L2 delete is not raised
\* to the caller), and when it has returned L1 holds no entry for k,
\* whether or not the L2 delete failed.
C28_DeleteClearsL1 ==
    [][\A t \in Threads :
          l10_pc[t] = "cache_delete" /\ l10_pc'[t] # l10_pc[t] =>
             /\ l10_pc'[t] = "cache_set"
             /\ l10_l1'[t][l10_req[t].key] = <<>>]_vars

\* the state right after a cache_delete whose L2 delete failed: L2 still
\* holds the value of an earlier write, L1 holds nothing
C28_Witness ==
    \E t \in Threads :
       /\ l10_pc[t] = "cache_set"
       /\ l10_l1[t][l10_req[t].key] = <<>>
       /\ l10_l2[l10_req[t].key] # <<>>
       /\ l10_l2[l10_req[t].key] # <<l10_req[t].value>>

\* C29: cache_set(k, v) always stores v in L1 and returns: a failure
\* writing to L2, the rejection by an OPEN cache_l2 breaker included, is
\* not raised to the caller and does not undo the L1 write.  cache_set is
\* the last step of write, and the last step of a read served by the
\* store.
C29_SetStoresInL1 ==
    [][/\ \A t \in Threads :
             l10_pc[t] = "cache_set" /\ l10_pc'[t] # l10_pc[t] =>
                /\ l10_l1'[t][l10_req[t].key] = <<l10_req[t].value>>
                /\ l10_ret'[1].op = "write"
                /\ l10_ret'[1].status = 200
       /\ (/\ l10_requests' = l10_requests + 1
           /\ l10_pc' = l10_pc
           /\ l10_ret' # <<>>
           /\ l10_ret'[1].op = "read"
           /\ l10_ret'[1].success
           /\ l10_ret'[1].level = "none")
          => \E p \in Threads :
                /\ l10_l1'[p] # l10_l1[p]
                /\ l10_l1'[p][l10_ret'[1].key] = l10_ret'[1].value]_vars

\* a write has answered 200 after its cache_set was rejected by the OPEN
\* cache_l2 breaker (the breaker is OPEN, and the request was admitted
\* after the breaker's last failure): L1 holds the key, L2 does not
C29_Witness ==
    /\ L10AllIdle
    /\ l10_ret # <<>>
    /\ l10_ret[1].op = "write"
    /\ l10_ret[1].status = 200
    /\ l10_cb[1]["cache_l2"].state = "OPEN"
    /\ \E s \in l10_zset["default"] :
          s > l10_cb[1]["cache_l2"].last_failure_time
    /\ l10_l1[1][l10_ret[1].key] # <<>>
    /\ l10_l2[l10_ret[1].key] = <<>>

\* ------------------------------------------------- claims: layer 6, order
\* the id of the last write accepted for key k, 0 when there is none
LastAcceptedFor(k) ==
    LET ids == {w.id : w \in {a \in l6_accepted : a.key = k}}
    IN  IF ids = {} THEN 0 ELSE CHOOSE i \in ids : \A j \in ids : j <= i

\* nothing is queued and the worker has no batch in hand
L6Drained == l6_queue = <<>> /\ w_writes = <<>> /\ w_tx = <<>>

\* C31: with one worker, queued writes reach the store in the order they
\* were enqueued: the writes of a batch are committed in queue order and
\* are later in the queue than every write committed before; so once the
\* queue is drained the store holds, for each key, the value of the last
\* write enqueued for it.
C31_AppliedInQueueOrder ==
    /\ [][(w_pc = "commit" /\ l6_db' # l6_db) =>
             /\ \A i \in 1..Len(w_tx), j \in 1..Len(w_tx) :
                    i < j => w_tx[i].id < w_tx[j].id
             /\ \A i \in BatchIds(w_tx), j \in l6_applied : i > j
             /\ \A k \in L6Keys :
                    l6_db'[k] # l6_db[k] =>
                       (l6_db[k] = <<>> \/ l6_db'[k][1] > l6_db[k][1])]_vars
    /\ [](L6Drained =>
             \A k \in L6Keys :
                LastAcceptedFor(k) # 0 => l6_db[k] = <<LastAcceptedFor(k)>>)

\* the queue is drained after two writes of one key were committed, the
\* store holding the second
C31_Witness ==
    /\ L6Drained
    /\ \E k \in L6Keys :
          /\ Cardinality({a \in l6_accepted : a.key = k}) >= 2
          /\ {a.id : a \in {b \in l6_accepted : b.key = k}}
                 \subseteq l6_applied
          /\ l6_db[k] = <<LastAcceptedFor(k)>>

\* ------------------------------------------- claims: layer 4, concurrency
\* a write of key k is in progress
L4WriteInFlight(k) ==
    \E t \in Threads : l4_req[t].op = "write" /\ l4_req[t].key = k

\* the value the store holds for key k, "none" when it has no row
L4Stored(k) ==
    IF GetShardId(k) \in ShardPools /\ l4_shard[GetShardId(k)][k] # <<>>
    THEN l4_shard[GetShardId(k)][k][1].value ELSE "none"

\* a step in which a read of k is begun and answered from the cache
L4CacheHit(t, k) ==
    l4_pc' = l4_pc /\ l4_ret'.from_cache /\ L4ReadBegin(t, k)

L10Stored(k) == l10_shard[GetShardForKey(k)][k]

C34_NoOlderValueCached ==
    \A k \in L6Keys :
       (/\ l6_pc = "idle"
        /\ l6_db[k] # <<>>
        /\ ~\E i \in 1..Len(l6_queue) : l6_queue[i].key = k
        /\ ~\E i \in 1..Len(w_writes) : w_writes[i].key = k)
          => (l6_cache[k] # <<>> => l6_cache[k] = l6_db[k])

\* ------------------------------- claims: layer 7, restarts and commands
\* the number of events of the stream that are for key k
EventsFor(k) == Cardinality({i \in 1..Len(l7_stream) : l7_stream[i].key = k})

\* C35: across projector restarts, the read model's value for a key
\* never goes back to the value of an earlier event once a later event
\* of the key was applied, and write_count of a key is never more than
\* the number of events published for the key.
C35_NoRevertAcrossRestarts ==
    /\ [][\A k \in L7Keys :
            (l7_read[k] # <<>> /\ l7_read'[k] # <<>>)
               => l7_read'[k][1].value >= l7_read[k][1].value]_vars
    /\ [](\A k \in L7Keys :
             l7_read[k] # <<>> => l7_read[k][1].write_count <= EventsFor(k))

\* C36: a write command that answers success=True has appended exactly
\* one event, the one for its key, to the event log and returns that
\* event's id, which is not None: no command is committed and reported
\* successful without its event.
C36_SuccessHasEvent ==
    [][(l7_commands' # l7_commands /\ l7_ret'[1].success)
          => /\ Len(l7_stream') = Len(l7_stream) + 1
             /\ l7_ret'[1].event_id = Len(l7_stream')
             /\ l7_ret'[1].event_id # 0]_vars

\* --------------------------------------- claims: layer 9, write errors
\* C37: a write that is answered with an error (500) has changed no
\* regional store; a failing cache invalidation in the primary region
\* does not leave a committed primary write behind the error.
C37_ErrorLeavesStoresUnchanged ==
    [][(/\ L9AllIdle
        /\ l9_pc' = l9_pc
        /\ l9_ret'.op = "write"
        /\ l9_ret'.status = 500)
          => l9_db' = l9_db]_vars

\* ------------------------------------- claims: layer 10, guarded store
\* C38: a read or write whose statement on the key's shard fails counts
\* as a failure on that shard's circuit breaker (its failure count goes
\* up by one), so that failure_threshold failed store operations in a
\* row open the breaker and the next one fails fast.
C38_FailedStatementCounts ==
    [][(/\ l10_requests' = l10_requests + 1
        /\ l10_pc' = l10_pc
        /\ l10_ret'[1].op \in {"read", "write"}
        /\ l10_ret'[1].cause = "stmt_fails")
          => \E p \in Threads :
                LET shard == GetShardForKey(l10_ret'[1].key)
                IN  l10_cb'[p][shard].failure_count =
                       l10_cb[p][shard].failure_count + 1]_vars

\* C39: a read of key k that follows an authenticated and admitted write
\* of (k, v), v any string the write accepts, the empty string included,
\* answers success=True with value v.
C39_RoundTrip ==
    [][(/\ l10_requests' = l10_requests + 1
        /\ l10_pc' = l10_pc
        /\ l10_ret'[1].op = "read"
        /\ l10_ret'[1].status = 200
        /\ L10Stored(l10_ret'[1].key) # <<>>)
          => /\ l10_ret'[1].success
             /\ l10_ret'[1].value = L10Stored(l10_ret'[1].key)]_vars

\* ------------------------------------ claims: circuit breaker, recovery
\* C40: when the wrapped operation succeeds from some point on, the
\* clock keeps advancing and calls keep arriving, the breaker becomes
\* CLOSED and stays CLOSED: it is not OPEN or HALF_OPEN forever, however
\* the callers are interleaved.
C40_EventuallyClosed == <>[](cb_state = "CLOSED")

\* the breaker was opened by failures and a probe that succeeded after
\* the cooldown has closed it
C40_Witness ==
    /\ cb_state = "CLOSED"
    /\ last_failure_time # NoTime
    /\ now - last_failure_time >= timeout
    /\ cb_consec = 0
    /\ cb_ret = [outcome |-> "ok", probe |-> TRUE]

====
